---- MODULE Spec2Model ----
(***************************************************************************)
(* The per-retrieval aggregation engine of lassie-event-recorder:          *)
(*   - metrics/tempdata: TempData (atomic per-field counters), the        *)
(*     sync.Pool of recycled TempData objects, and TempDataMap            *)
(*     (GetOrCreate / Delete over a sync.Map, with a time.AfterFunc       *)
(*     eviction timer per inserted entry);                                *)
(*   - metrics/events.go: the per-event handlers of Metrics;              *)
(*   - eventrecorder/recorder.go: the dispatch of RecordEvents.           *)
(*                                                                         *)
(* Every HTTP request is served by its own goroutine, so handlers run     *)
(* concurrently.  A worker of the model is such a goroutine; one step of  *)
(* a worker is one operation of the code on shared state (a sync.Map      *)
(* operation, a Record... method of TempData, a timer Stop) together with *)
(* the metric updates that follow from its result.  Timer callbacks run   *)
(* on their own goroutines and interleave with the workers in the same    *)
(* way.                                                                    *)
(***************************************************************************)
EXTENDS Integers, Sequences, FiniteSets, TLC

(***************************************************************************)
(* Bounds of the model.                                                    *)
(***************************************************************************)
NumWorkers == 2     \* concurrent request goroutines
NumIds == 2         \* distinct retrieval identifiers
NumObjs == 4        \* TempData objects that can exist at once
MaxEvents == 2      \* events dispatched in one behaviour
MaxTime == 2        \* event timestamps are 1..MaxTime (UnixMicro, never 0)
MaxCount == 2       \* candidate counts reported by one event are 1..MaxCount
Uint32Bits == 5     \* width in bits of the uint32 counters (32 in the source)
MaxCalls == 3       \* RecordIndexerCandidates calls on one live state

(***************************************************************************)
(* Program constants.                                                      *)
(***************************************************************************)
\* const timeout = 1 * time.Minute; the model's clock ticks once a minute.
timeout == 1

Workers == 1..NumWorkers
Ids == 1..NumIds
Objs == 1..NumObjs
Times == 1..MaxTime
Counts == 1..MaxCount
\* every dispatched event schedules at most one timer
TimerIds == 1..MaxEvents

\* types.BitswapIndentifier and one provider-addressed peer
BitswapIndentifier == "Bitswap"
StorageProviders == {BitswapIndentifier, "sp1"}

ProtocolBitswap == "bitswap"
ProtocolGraphsync == "graphsync"

VARIABLES
    internalMap,   \* TempDataMap.internalMap: Ids -> object (0 = no entry)
    pool,          \* tempDataPool: the set of pooled objects
    objs,          \* the TempData objects: Objs -> fields
    timers,        \* the time.AfterFunc timers created so far
    pc,            \* position of each worker inside its handler
    ev,            \* the event each worker is handling
    tempData,      \* handler local: the *TempData returned by GetOrCreate
    loaded,        \* GetOrCreate local: the result flag of LoadOrStore
    value,         \* Delete local: the object returned by LoadAndDelete
    finalDetails,  \* handler local: the *FinalValues returned by Delete
    metrics,       \* the counters and histograms of the sink
    evCount,       \* number of events dispatched so far
    panics,        \* number of handlers ended by a nil dereference
    \* history (not program state)
    reg,           \* per identifier: the serial number of its current registration
    hist,          \* per object: the events applied to it since it was last zeroed
    epoch,         \* per worker: deletions of its id seen when it called LoadOrStore
                   \* (for a handler that never calls it, when it was entered)
    inserts,       \* number of insertions into internalMap so far
    summaries,     \* every non-nil result of Delete, in order
    \* RecordAggregateEvents
    aggPc,         \* position of the call: idle / loop / done
    aggEvents,     \* its argument events
    aggNext,       \* index of the next element of the range loop
    aggCalls,      \* history: the arguments of each HandleAggregatedEvent call
    \* SPMap
    sm_cfg,        \* sm.cfg of the map NewSPMap returned
    sm_opts,       \* history: the options NewSPMap was called with
    sm_cache,      \* sm.cache
    sm_c,          \* the buffer of the work channel sm.c
    chans,         \* the response channel made by each Get call
    calls,         \* each Get call: its position, its id and how it went
    run_pc,        \* position of the run goroutine
    run_t,         \* its work item t and the resp of its query
    lookups,       \* history: the requests sent to the lookup service
    \* HTTP ingress
    http_pc,       \* position of the request handler
    http_req,      \* the request being handled
    http_err,      \* the error of batch.Validate ("nil" when it returned nil)
    http_status,   \* the status written to the response (0: none yet)
    http_calls,    \* history: the metrics handlers the recorder called
    db,            \* the batches persisted by SendBatch
    \* one live TempData under RecordIndexerCandidates calls
    cand_t,        \* the TempData
    cand_firsts    \* history: the result `first` of each call

aggVars == <<aggPc, aggEvents, aggNext, aggCalls>>

spVars == <<sm_cfg, sm_opts, sm_cache, sm_c, chans, calls, run_pc, run_t, lookups>>

httpVars == <<http_pc, http_req, http_err, http_status, http_calls, db>>

candVars == <<cand_t, cand_firsts>>

vars == <<internalMap, pool, objs, timers, pc, ev, tempData, loaded, value,
          finalDetails, metrics, evCount, panics, reg, hist, epoch, inserts,
          summaries, aggPc, aggEvents, aggNext, aggCalls,
          sm_cfg, sm_opts, sm_cache, sm_c, chans, calls, run_pc, run_t, lookups,
          http_pc, http_req, http_err, http_status, http_calls, db,
          cand_t, cand_firsts>>


(***************************************************************************)
(* Events (eventrecorder.Event).  EventDetails is decoded JSON; the model  *)
(* carries the three fields the handlers read from it.                     *)
(***************************************************************************)
\* Failure messages are sequences of fragments; a fragment is either one of
\* the patterns of the classification table or other text.
Msgs ==
    { <<"connection reset">>,
      <<"timeout after ">>,
      <<"failed to dial">>,
      <<"failed to dial", ": ", "timeout after ">> }

\* EventDetails: details is "object" when the decoded JSON is an object, and
\* fields holds the names of the members that are present with the type the
\* handlers assert (candidateCount and receivedSize a number, error a string).
NoEvent ==
    [name |-> "none", phase |-> "none", id |-> 0, time |-> 0, sp |-> "",
     details |-> "nil", fields |-> {},
     candidateCount |-> 0, error |-> <<>>, receivedSize |-> 0]

StartedEvents ==
    { [NoEvent EXCEPT !.name = "started", !.phase = "indexer", !.id = i, !.time = t]
        : i \in Ids, t \in Times }

RetrievalStartedEvents ==
    { [NoEvent EXCEPT !.name = "started", !.phase = "retrieval", !.id = i, !.sp = s,
                      !.time = MaxTime]
        : i \in Ids, s \in StorageProviders }

CandidatesFoundEvents ==
    { [NoEvent EXCEPT !.name = "candidates-found", !.phase = "indexer", !.id = i,
                      !.details = "object", !.fields = {"candidateCount"},
                      !.time = MaxTime, !.candidateCount = c]
        : i \in Ids, c \in Counts }

CandidatesFilteredEvents ==
    { [NoEvent EXCEPT !.name = "candidates-filtered", !.phase = "indexer", !.id = i,
                      !.details = "object", !.fields = {"candidateCount"},
                      !.time = MaxTime, !.candidateCount = c]
        : i \in Ids, c \in Counts }

FirstByteEvents ==
    { [NoEvent EXCEPT !.name = "first-byte-received", !.phase = "retrieval", !.id = i,
                      !.sp = "sp1", !.time = t]
        : i \in Ids, t \in Times }

IndexerFailedEvents ==
    { [NoEvent EXCEPT !.name = "failed", !.phase = "indexer", !.id = i,
                      !.details = "object", !.fields = {"error"},
                      !.time = MaxTime, !.error = <<"connection reset">>]
        : i \in Ids }

RetrievalFailedEvents ==
    { [NoEvent EXCEPT !.name = "failed", !.phase = "retrieval", !.id = i, !.sp = s,
                      !.details = "object", !.fields = {"error"},
                      !.time = MaxTime, !.error = m]
        : i \in Ids, s \in StorageProviders, m \in Msgs }

SuccessEvents ==
    { [NoEvent EXCEPT !.name = "success", !.phase = "retrieval", !.id = i,
                      !.details = "object", !.fields = {"receivedSize"},
                      !.sp = "sp1", !.time = MaxTime, !.receivedSize = 1]
        : i \in Ids }

\* started and failed events of the query phase
QueryPhaseEvents ==
    { [NoEvent EXCEPT !.name = "started", !.phase = "query", !.id = i, !.sp = "sp1",
                      !.time = MaxTime]
        : i \in Ids }
    \cup
    { [NoEvent EXCEPT !.name = "failed", !.phase = "query", !.id = i, !.sp = "sp1",
                      !.details = "object", !.fields = {"error"},
                      !.time = MaxTime, !.error = <<"connection reset">>]
        : i \in Ids }

\* the event codes Event.Validate accepts and RecordEvents has no case for
OtherCodes ==
    {"connected", "query-asked", "query-asked-filtered", "proposed", "accepted"}

OtherCodeEvents ==
    { [NoEvent EXCEPT !.name = n, !.phase = "retrieval", !.id = i, !.sp = "sp1",
                      !.time = MaxTime]
        : n \in OtherCodes, i \in Ids }

\* the field of the details each handler asserts
ExpectedField ==
    [n \in {"candidates-found", "candidates-filtered", "failed", "success"} |->
        CASE n = "failed" -> "error"
          [] n = "success" -> "receivedSize"
          [] OTHER -> "candidateCount"]

\* events whose details are not an object ("string"), or are an object that
\* lacks the expected member or holds it with another type
MalformedEvents ==
    { [NoEvent EXCEPT !.name = n, !.phase = p, !.id = i, !.sp = "sp1",
                      !.time = MaxTime, !.details = d]
        : n \in DOMAIN ExpectedField, p \in {"indexer", "retrieval"},
          i \in Ids, d \in {"string", "object"} }

\* candidates-found and candidates-filtered events whose details carry a
\* numeric candidateCount that is zero or negative
NonPositiveCountEvents ==
    { [NoEvent EXCEPT !.name = n, !.phase = "indexer", !.id = i, !.sp = "sp1",
                      !.time = MaxTime, !.details = "object",
                      !.fields = {"candidateCount"}, !.candidateCount = c]
        : n \in {"candidates-found", "candidates-filtered"}, i \in Ids,
          c \in {0, -1} }

(***************************************************************************)
(* metrics/tempdata: TempData                                              *)
(***************************************************************************)
\* new(TempData): every field zero, the timer pointer nil (0)
NewTempData ==
    [timer |-> 0, startTime |-> 0, indexerCandidates |-> 0,
     indexerCandidateFirstResultTime |-> 0, indexerFiltered |-> 0,
     bitswapAttempt |-> 0, graphsyncAttempt |-> 0, ttfbTime |-> 0,
     failedCount |-> 0]

\* atomic.CompareAndSwap(&field, old, new): the new value and the result
CompareAndSwap(cur, old, new) ==
    IF cur = old THEN [val |-> new, swapped |-> TRUE]
                 ELSE [val |-> cur, swapped |-> FALSE]

\* func (t *TempData) RecordStartTime(startTime time.Time) (first bool)
RecordStartTime(t, startTime) ==
    LET r == CompareAndSwap(t.startTime, 0, startTime)
    IN  [t |-> [t EXCEPT !.startTime = r.val], first |-> r.swapped]

\* The uint32 counters wrap at 2^32, scaled here to 2^Uint32Bits.
Uint32Mod == 2 ^ Uint32Bits

\* uint32(f) of a float64 f = num/den with 0 <= f < 2^32: the fraction is
\* discarded.
Uint32(num, den) == (num \div den) % Uint32Mod

\* func (t *TempData) RecordIndexerCandidates(eventTime, candidatesFound) (first bool)
RecordIndexerCandidates(t, eventTime, candidatesFound) ==
    LET r == CompareAndSwap(t.indexerCandidates, 0, candidatesFound)
    IN  IF r.swapped
        THEN [t |-> [t EXCEPT !.indexerCandidates = r.val,
                              !.indexerCandidateFirstResultTime = eventTime],
              first |-> TRUE]
        ELSE [t |-> [t EXCEPT !.indexerCandidates = (@ + candidatesFound) % Uint32Mod],
              first |-> FALSE]

\* func (t *TempData) RecordIndexerFilteredCandidates(candidatesFoundFiltered) (first bool)
RecordIndexerFilteredCandidates(t, candidatesFoundFiltered) ==
    LET r == CompareAndSwap(t.indexerFiltered, 0, candidatesFoundFiltered)
    IN  IF r.swapped
        THEN [t |-> [t EXCEPT !.indexerFiltered = r.val], first |-> TRUE]
        ELSE [t |-> [t EXCEPT !.indexerFiltered =
                                  (@ + candidatesFoundFiltered) % Uint32Mod],
              first |-> FALSE]

\* A RecordBitswapAttempt that stores the flag without comparing and reports
\* first on every call.
RecordBitswapAttemptStore(t) ==
    [t |-> [t EXCEPT !.bitswapAttempt = 1], first |-> TRUE]

\* func (t *TempData) RecordBitswapAttempt() (first bool)
RecordBitswapAttempt(t) ==
    LET r == CompareAndSwap(t.bitswapAttempt, 0, 1)
    IN  [t |-> [t EXCEPT !.bitswapAttempt = r.val], first |-> r.swapped]

\* func (t *TempData) RecordGraphsyncAttempt() (first bool)
RecordGraphsyncAttempt(t) ==
    LET r == CompareAndSwap(t.graphsyncAttempt, 0, 1)
    IN  [t |-> [t EXCEPT !.graphsyncAttempt = r.val], first |-> r.swapped]

\* func (t *TempData) RecordTimeToFirstByte(ttfbTime time.Time) (first bool)
RecordTimeToFirstByte(t, ttfbTime) ==
    LET r == CompareAndSwap(t.ttfbTime, 0, ttfbTime)
    IN  [t |-> [t EXCEPT !.ttfbTime = r.val], first |-> r.swapped]

\* func (t *TempData) finalValues() FinalValues
finalValues(t) ==
    [StartTime |-> t.startTime,
     IndexerCandidates |-> t.indexerCandidates,
     IndexerCandidateFirstResultTime |-> t.indexerCandidateFirstResultTime,
     IndexerFiltered |-> t.indexerFiltered,
     HasBitswapAttempt |-> t.bitswapAttempt > 0,
     HasGraphSyncAttempt |-> t.graphsyncAttempt > 0,
     TimeToFirstByte |-> t.ttfbTime,
     FailedCount |-> t.failedCount]

\* func (t *TempData) zeroOut(): the eight counters, not the timer pointer
zeroOut(t) == [NewTempData EXCEPT !.timer = t.timer]

\* a nil *FinalValues
Nil == [StartTime |-> -1]

(***************************************************************************)
(* metrics/tempdata: the sync.Map operations of TempDataMap                *)
(***************************************************************************)
\* sync.Map.Store in place of LoadOrStore: the entry is always replaced.
AlwaysStore(m, id, new) ==
    [map |-> [m EXCEPT ![id] = new], actual |-> new, loaded |-> FALSE]

\* sync.Map.LoadOrStore(id, new)
LoadOrStore(m, id, new) ==
    IF m[id] # 0
    THEN [map |-> m, actual |-> m[id], loaded |-> TRUE]
    ELSE [map |-> [m EXCEPT ![id] = new], actual |-> new, loaded |-> FALSE]

\* sync.Map.Load in place of LoadAndDelete: the entry stays in the map.
LoadOnly(m, id) ==
    [map |-> m, value |-> m[id], loaded |-> m[id] # 0]

\* sync.Map.LoadAndDelete(id)
LoadAndDelete(m, id) ==
    [map |-> [m EXCEPT ![id] = 0], value |-> m[id], loaded |-> m[id] # 0]

(***************************************************************************)
(* metrics/events.go: error classification                                 *)
(***************************************************************************)
\* The entries of errorMetricMatches, in the order of the source.
errorMetricMatches ==
    << [substr |-> "response rejected", metric |-> "retrievalErrorRejectedCount"],
       [substr |-> "Too many retrieval deals received", metric |-> "retrievalErrorTooManyCount"],
       [substr |-> "Access Control", metric |-> "retrievalErrorACLCount"],
       [substr |-> "Under maintenance, retry later", metric |-> "retrievalErrorMaintenanceCount"],
       [substr |-> "miner is not accepting online retrieval deals", metric |-> "retrievalErrorNoOnlineCount"],
       [substr |-> "unconfirmed block transfer", metric |-> "retrievalErrorUnconfirmedCount"],
       [substr |-> "timeout after ", metric |-> "retrievalErrorTimeoutCount"],
       [substr |-> "there is no unsealed piece containing payload cid", metric |-> "retrievalErrorNoUnsealedCount"],
       [substr |-> "getting pieces for cid", metric |-> "retrievalErrorDAGStoreCount"],
       [substr |-> "graphsync request failed to complete: request failed - unknown reason", metric |-> "retrievalErrorGraphsyncCount"],
       [substr |-> "failed to dial", metric |-> "retrievalErrorFailedToDialCount"] >>

ErrorMetrics ==
    { errorMetricMatches[i].metric : i \in 1..Len(errorMetricMatches) }
        \cup {"retrievalErrorOtherCount"}

\* strings.Contains(msg, substr), on messages made of fragments
Contains(msg, substr) == \E i \in 1..Len(msg) : msg[i] = substr

\* func (m *Metrics) getMatchingErrorMetric(ctx, msg): errorMetricMatches is a
\* Go map and `for substr, metric := range` visits it in an unspecified order,
\* so the call returns the metric of any entry whose pattern msg contains.
\* The set of results the call can return:
getMatchingErrorMetric(msg) ==
    LET hits == { i \in 1..Len(errorMetricMatches) :
                    Contains(msg, errorMetricMatches[i].substr) }
    IN  IF hits = {}
        THEN { [metric |-> "nil", matched |-> FALSE] }
        ELSE { [metric |-> errorMetricMatches[i].metric, matched |-> TRUE] : i \in hits }

\* Variant that tags every provider as graphsync.
protocolFromSpIDGraphsync(storageProviderId) == ProtocolGraphsync

\* func protocolFromSpID(storageProviderId string) string
protocolFromSpID(storageProviderId) ==
    IF storageProviderId = BitswapIndentifier THEN ProtocolBitswap ELSE ProtocolGraphsync

(***************************************************************************)
(* The metrics sink: counters are numbers, histograms the sequence of      *)
(* recorded samples.  retrievalErrorProtocol counts the increments of the  *)
(* error-category counters by their protocol attribute.                    *)
(***************************************************************************)
NewMetrics ==
    [totalRequestCount |-> 0,
     requestWithIndexerFailures |-> 0,
     requestWithIndexerCandidatesCount |-> 0,
     requestWithIndexerCandidatesFilteredCount |-> 0,
     requestWithBitswapAttempt |-> 0,
     requestWithGraphSyncAttempt |-> 0,
     requestWithFirstByteReceivedCount |-> 0,
     requestWithHttpAttempt |-> 0,
     requestWithHttpSuccessCount |-> 0,
     httpRetrievalFailureCount |-> 0,
     requestWithSuccessCount |-> 0,
     requestWithBitswapSuccessCount |-> 0,
     requestWithGraphSyncSuccessCount |-> 0,
     graphsyncRetrievalFailureCount |-> 0,
     retrievalError |-> [c \in ErrorMetrics |-> 0],
     retrievalErrorProtocol |-> [p \in {"bitswap", "graphsync", "http"} |-> 0],
     timeToFirstIndexerResult |-> <<>>,
     timeToFirstByte |-> <<>>,
     retrievalDealDuration |-> <<>>,
     retrievalDealSize |-> <<>>,
     bandwidthBytesPerSecond |-> <<>>,
     indexerCandidatesPerRequestCount |-> <<>>,
     indexerCandidatesFilteredPerRequestCount |-> <<>>,
     failedRetrievalsPerRequestCount |-> <<>>]

\* SPMap: peers, Get calls, the lookup service.
NumPeers == 2
MaxGets == 3
\* Capacity of the work channel, make(chan work, 10) in the source, scaled.
QueueCap == 2

Peers == 1..NumPeers
GetCalls == 1..MaxGets

DefaultEndpoint == "https://heyfil.prod.cid.contact"
DefaultClient == "http.DefaultClient"

NoConfig == [heyFilEndpoint |-> "", client |-> ""]
NotCached == [ok |-> FALSE, v |-> <<>>]
NoChan == [made |-> FALSE, buf |-> <<>>, closed |-> FALSE, sent |-> <<>>]
NoCall == [pc |-> "none", id |-> 0, how |-> "", answered |-> FALSE,
           answer |-> <<>>, got |-> <<>>]
NoWork == [query |-> 0, response |-> 0, resp |-> <<>>]

\* HTTP ingress: the request before any was received.
NoRequest == [path |-> "", method |-> "", contentType |-> "", decodes |-> FALSE,
              batch |-> <<>>]

(***************************************************************************)
(* History kept for stating the properties.                                *)
(***************************************************************************)
\* reg[id].ser: the serial number of the insertion that registered the
\* current entry of id (0 when there is none); reg[id].failed: the number of
\* retrieval-phase failed events of id handled since that insertion.
NoReg == [ser |-> 0, failed |-> 0]

\* hist[o], for the events applied to object o since it was allocated or last
\* zeroed, by the identifier of the event: started[id], the timestamp of the
\* first started event of id; found[id], the sum of the counts of the
\* candidates-found events of id; firsts[id], how many of those were told
\* they were the first; attempts[id], the number of retrieval-phase started
\* events of id; ttfb[id], the timestamp of the first first-byte event of id.
NoHist ==
    [started |-> [i \in Ids |-> 0], found |-> [i \in Ids |-> 0],
     firsts |-> [i \in Ids |-> 0], attempts |-> [i \in Ids |-> 0],
     ttfb |-> [i \in Ids |-> 0]]

\* number of times an entry of id has been removed so far
NumDeleted(id) ==
    Cardinality({ k \in 1..Len(summaries) : summaries[k].id = id })

\* the state tempData[w] is the one registered under the id of w's event
Live(w) ==
    /\ tempData[w] # 0
    /\ internalMap[ev[w].id] = tempData[w]

\* a timer whose callback has not started and that was not stopped
Armed(k) == timers[k].st = "armed"

\* objects nothing refers to any more (garbage): a new(TempData) takes the
\* lowest of them
Referenced ==
    pool \cup { internalMap[i] : i \in Ids }
         \cup { tempData[w] : w \in Workers } \cup { value[w] : w \in Workers }
         \cup { timers[k].value : k \in 1..Len(timers) }

FreeObjs == Objs \ Referenced

Min(S) == CHOOSE x \in S : \A y \in S : x <= y

\* tempDataPool.Get(): any pooled object, or (the pool may be ignored or
\* empty) a new one
PoolGet ==
    pool \cup (IF FreeObjs = {} THEN {} ELSE { Min(FreeObjs) })

Init ==
    /\ internalMap = [i \in Ids |-> 0]
    /\ pool = {}
    /\ objs = [o \in Objs |-> NewTempData]
    /\ timers = <<>>
    /\ pc = [w \in Workers |-> "idle"]
    /\ ev = [w \in Workers |-> NoEvent]
    /\ tempData = [w \in Workers |-> 0]
    /\ loaded = [w \in Workers |-> FALSE]
    /\ value = [w \in Workers |-> 0]
    /\ finalDetails = [w \in Workers |-> Nil]
    /\ metrics = NewMetrics
    /\ evCount = 0
    /\ panics = 0
    /\ reg = [i \in Ids |-> NoReg]
    /\ hist = [o \in Objs |-> NoHist]
    /\ epoch = [w \in Workers |-> 0]
    /\ inserts = 0
    /\ summaries = <<>>
    /\ aggPc = "idle"
    /\ aggEvents = <<>>
    /\ aggNext = 0
    /\ aggCalls = <<>>
    /\ sm_cfg = NoConfig
    /\ sm_opts = <<>>
    /\ sm_cache = [id \in Peers |-> NotCached]
    /\ sm_c = <<>>
    /\ chans = [g \in GetCalls |-> NoChan]
    /\ calls = [g \in GetCalls |-> NoCall]
    /\ run_pc = "none"
    /\ run_t = NoWork
    /\ lookups = <<>>
    /\ http_pc = "idle"
    /\ http_req = NoRequest
    /\ http_err = ""
    /\ http_status = 0
    /\ http_calls = <<>>
    /\ db = <<>>
    /\ cand_t = NewTempData
    /\ cand_firsts = <<>>

(***************************************************************************)
(* eventrecorder/recorder.go: RecordEvents dispatches each event of a      *)
(* batch to its handler.                                                   *)
(***************************************************************************)
\* The handlers that finalize: HandleSuccessEvent, and HandleFailureEvent in
\* the indexer phase, call RecordFinality and Delete.
Finalizes(e) ==
    \/ e.name = "success"
    \/ e.name = "failed" /\ e.phase = "indexer"

\* where a handler continues when GetOrCreate has returned
AfterGetOrCreate(e) == IF Finalizes(e) THEN "RecordFinality" ELSE "Record"

\* A GetOrCreate that schedules a timer on every call, loaded or not.
AlwaysAfterFunc(e, wasLoaded) == "AfterFunc"

\* GetOrCreate: if loaded { Put } else { timer = time.AfterFunc(...) }; return
AfterLoadOrStore(e, wasLoaded) ==
    IF wasLoaded THEN AfterGetOrCreate(e) ELSE "AfterFunc"

\* the handler of worker w returns (or its goroutine is unwound by a panic)
Return(w) ==
    /\ pc' = [pc EXCEPT ![w] = "idle"]
    /\ ev' = [ev EXCEPT ![w] = NoEvent]
    /\ tempData' = [tempData EXCEPT ![w] = 0]
    /\ loaded' = [loaded EXCEPT ![w] = FALSE]
    /\ value' = [value EXCEPT ![w] = 0]
    /\ finalDetails' = [finalDetails EXCEPT ![w] = Nil]
    /\ epoch' = [epoch EXCEPT ![w] = 0]

\* RecordEvents, case StartedCode / CandidatesFoundCode / CandidatesFilteredCode
\* / FirstByteCode / FailedCode (indexer) / SuccessCode with well-formed
\* details and a positive count: the handler is entered and is about to call
\* GetOrCreate.
Dispatch(w) ==
    /\ pc[w] = "idle"
    /\ \A v \in Workers : v < w => pc[v] # "idle"
    /\ evCount < MaxEvents
    /\ \E e \in StartedEvents \cup RetrievalStartedEvents
                 \cup CandidatesFoundEvents \cup CandidatesFilteredEvents
                 \cup FirstByteEvents \cup IndexerFailedEvents \cup SuccessEvents :
          ev' = [ev EXCEPT ![w] = e]
    /\ pc' = [pc EXCEPT ![w] = "LoadOrStore"]
    /\ evCount' = evCount + 1
    /\ UNCHANGED <<internalMap, pool, objs, timers, tempData, loaded, value,
                   finalDetails, metrics, panics, reg, hist, epoch, inserts, summaries>>
    /\ UNCHANGED <<aggVars, spVars, httpVars, candVars>>

\* Handlers that assert nothing about the details: every event with a case in
\* the switch goes on to the body of its handler.
EntryUnchecked(e) ==
    IF e.name = "failed" /\ e.phase = "retrieval" THEN "Classify" ELSE "LoadOrStore"

\* Candidates handlers without the test candidateCount > 0.
EntryAnyCount(e) ==
    IF /\ e.name \in {"candidates-found", "candidates-filtered"}
       /\ e.details = "object"
       /\ "candidateCount" \in e.fields
    THEN "LoadOrStore"
    ELSE CASE e.name \in {"started", "first-byte-received"} -> "LoadOrStore"
           [] e.name = "failed" /\ e.details = "object" /\ "error" \in e.fields ->
                 CASE e.phase = "indexer" -> "LoadOrStore"
                   [] e.phase = "retrieval" -> "Classify"
                   [] OTHER -> "Return"
           [] e.name = "success" /\ e.details = "object"
                                 /\ "receivedSize" \in e.fields -> "LoadOrStore"
           [] OTHER -> "Return"

\* How far a handler gets before it touches the table or the sink:
\* RecordEvents' switch on event.EventName, then the type assertions on the
\* details and the count test at the head of each handler, and the phase switch
\* of HandleFailureEvent.  "LoadOrStore": the handler calls GetOrCreate;
\* "Classify": it classifies a retrieval failure; "Return": it returns.
Entry(e) ==
    CASE e.name \in {"started", "first-byte-received"} -> "LoadOrStore"
      [] e.name \in {"candidates-found", "candidates-filtered"} ->
            IF /\ e.details = "object"
               /\ "candidateCount" \in e.fields
               /\ e.candidateCount > 0
            THEN "LoadOrStore" ELSE "Return"
      [] e.name = "failed" ->
            IF e.details = "object" /\ "error" \in e.fields
            THEN CASE e.phase = "indexer" -> "LoadOrStore"
                   [] e.phase = "retrieval" -> "Classify"
                   [] OTHER -> "Return"
            ELSE "Return"
      [] e.name = "success" ->
            IF e.details = "object" /\ "receivedSize" \in e.fields
            THEN "LoadOrStore" ELSE "Return"
      [] OTHER -> "Return"

\* RecordEvents with an event of the query phase, of a code without a case,
\* with malformed details or with a candidate count that is not positive: the
\* switch and the handler's own checks decide how
\* far it gets.  History: epoch is taken when the handler is entered.
DispatchOther(w) ==
    /\ pc[w] = "idle"
    /\ \A v \in Workers : v < w => pc[v] # "idle"
    /\ evCount < MaxEvents
    /\ \E e \in QueryPhaseEvents \cup OtherCodeEvents \cup MalformedEvents
                 \cup NonPositiveCountEvents :
          /\ ev' = [ev EXCEPT ![w] = e]
          /\ pc' = [pc EXCEPT ![w] = Entry(e)]
          /\ epoch' = [epoch EXCEPT ![w] = NumDeleted(e.id)]
    /\ evCount' = evCount + 1
    /\ UNCHANGED <<internalMap, pool, objs, timers, tempData, loaded, value,
                   finalDetails, metrics, panics, reg, hist, inserts, summaries>>
    /\ UNCHANGED <<aggVars, spVars, httpVars, candVars>>

\* the handler (or RecordEvents' switch) returns without having done anything
Handler_Return(w) ==
    /\ pc[w] = "Return"
    /\ Return(w)
    /\ UNCHANGED <<internalMap, pool, objs, timers, metrics, evCount, panics, reg,
                   hist, inserts, summaries>>
    /\ UNCHANGED <<aggVars, spVars, httpVars, candVars>>

\* RecordEvents, case FailedCode with a retrieval-phase event whose details
\* carry an error string: HandleFailureEvent is entered.
DispatchRetrievalFailure(w) ==
    /\ pc[w] = "idle"
    /\ \A v \in Workers : v < w => pc[v] # "idle"
    /\ evCount < MaxEvents
    /\ \E e \in RetrievalFailedEvents : ev' = [ev EXCEPT ![w] = e]
    /\ pc' = [pc EXCEPT ![w] = "Classify"]
    /\ evCount' = evCount + 1
    /\ UNCHANGED <<internalMap, pool, objs, timers, tempData, loaded, value,
                   finalDetails, metrics, panics, reg, hist, epoch, inserts, summaries>>
    /\ UNCHANGED <<aggVars, spVars, httpVars, candVars>>

\* HandleFailureEvent, case types.RetrievalPhase:
\*   if storageProviderID != types.BitswapIndentifier { graphsync failure + 1 }
\*   if metric, matched := m.getMatchingErrorMetric(ctx, msg); matched {
\*       metric.Add(1) } else { m.retrievalErrorOtherCount.Add(1) }
HandleFailureEvent_Retrieval(w) ==
    /\ pc[w] = "Classify"
    /\ \E r \in getMatchingErrorMetric(ev[w].error) :
          LET counter == IF r.matched THEN r.metric ELSE "retrievalErrorOtherCount"
          IN  metrics' =
                [metrics EXCEPT
                   !.graphsyncRetrievalFailureCount =
                       IF ev[w].sp # BitswapIndentifier THEN @ + 1 ELSE @,
                   !.retrievalError[counter] = @ + 1,
                   !.retrievalErrorProtocol[protocolFromSpID(ev[w].sp)] = @ + 1]
    /\ reg' = IF internalMap[ev[w].id] # 0
              THEN [reg EXCEPT ![ev[w].id].failed = @ + 1]
              ELSE reg
    /\ Return(w)
    /\ UNCHANGED <<internalMap, pool, objs, timers, evCount, panics, hist, inserts,
                   summaries>>
    /\ UNCHANGED <<aggVars, spVars, httpVars, candVars>>

(***************************************************************************)
(* TempDataMap.GetOrCreate                                                 *)
(***************************************************************************)
\* newTempData := tempDataPool.Get(); actual, loaded := LoadOrStore(id,
\* newTempData); if loaded { tempDataPool.Put(newTempData) }.
\* When the entry was loaded the object taken from the pool goes straight
\* back, and a new zero object put into the pool is the same as none.
GetOrCreate_LoadOrStore(w) ==
    /\ pc[w] = "LoadOrStore"
    /\ \E newTempData \in PoolGet :
          LET id == ev[w].id
              r == LoadOrStore(internalMap, id, newTempData)
          IN  /\ internalMap' = r.map
              /\ tempData' = [tempData EXCEPT ![w] = r.actual]
              /\ loaded' = [loaded EXCEPT ![w] = r.loaded]
              /\ epoch' = [epoch EXCEPT ![w] = NumDeleted(id)]
              /\ pc' = [pc EXCEPT ![w] = AfterLoadOrStore(ev[w], r.loaded)]
              /\ IF r.loaded
                 THEN UNCHANGED <<pool, objs, reg, hist, inserts>>
                 ELSE /\ pool' = pool \ {newTempData}
                      /\ objs' = IF newTempData \in pool THEN objs
                                 ELSE [objs EXCEPT ![newTempData] = NewTempData]
                      /\ hist' = IF newTempData \in pool THEN hist
                                 ELSE [hist EXCEPT ![newTempData] = NoHist]
                      /\ reg' = [reg EXCEPT ![id] = [NoReg EXCEPT !.ser = inserts + 1]]
                      /\ inserts' = inserts + 1
    /\ UNCHANGED <<timers, ev, value, finalDetails, metrics, evCount, panics,
                   summaries>>
    /\ UNCHANGED <<aggVars, spVars, httpVars, candVars>>

\* actual.(*TempData).timer = time.AfterFunc(timeout, func() { t.Delete(id) })
\* A timer: id, the identifier its callback deletes; st, armed / stopped /
\* expired (callback started, Delete not yet run) / zeroOut (callback between
\* LoadAndDelete and zeroOut) / done; left, minutes
\* until it fires; value, the Delete local of its callback.  History: obj, the
\* state it was armed for, and epoch, that of the call that armed it.
GetOrCreate_AfterFunc(w) ==
    /\ pc[w] = "AfterFunc"
    /\ timers' = Append(timers,
                        [id |-> ev[w].id, st |-> "armed", left |-> timeout,
                         value |-> 0, obj |-> tempData[w], epoch |-> epoch[w]])
    /\ objs' = [objs EXCEPT ![tempData[w]].timer = Len(timers) + 1]
    /\ pc' = [pc EXCEPT ![w] = AfterGetOrCreate(ev[w])]
    /\ UNCHANGED <<internalMap, pool, ev, tempData, loaded, value, finalDetails,
                   metrics, evCount, panics, reg, hist, epoch, inserts, summaries>>
    /\ UNCHANGED <<aggVars, spVars, httpVars, candVars>>

(***************************************************************************)
(* The non-finalizing handlers after GetOrCreate                           *)
(***************************************************************************)
\* HandleStartedEvent, case types.IndexerPhase:
\*   tempData.RecordStartTime(eventTime); m.totalRequestCount.Add(ctx, 1)
HandleStartedEvent_Record(w) ==
    /\ pc[w] = "Record"
    /\ ev[w].name = "started"
    /\ ev[w].phase = "indexer"
    /\ LET r == RecordStartTime(objs[tempData[w]], ev[w].time)
       IN  objs' = [objs EXCEPT ![tempData[w]] = r.t]
    /\ metrics' = [metrics EXCEPT !.totalRequestCount = @ + 1]
    /\ hist' = IF hist[tempData[w]].started[ev[w].id] = 0
               THEN [hist EXCEPT ![tempData[w]].started[ev[w].id] = ev[w].time]
               ELSE hist
    /\ Return(w)
    /\ UNCHANGED <<internalMap, pool, timers, evCount, panics, reg, inserts,
                   summaries>>
    /\ UNCHANGED <<aggVars, spVars, httpVars, candVars>>

\* HandleStartedEvent with a phase that matches no case of its switch: the
\* handler returns after GetOrCreate.
HandleStartedEvent_NoCase(w) ==
    /\ pc[w] = "Record"
    /\ ev[w].name = "started"
    /\ ev[w].phase \notin {"indexer", "retrieval"}
    /\ Return(w)
    /\ UNCHANGED <<internalMap, pool, objs, timers, metrics, evCount, panics, reg,
                   hist, inserts, summaries>>
    /\ UNCHANGED <<aggVars, spVars, httpVars, candVars>>

\* HandleStartedEvent, case types.RetrievalPhase:
\*   if storageProviderID == types.BitswapIndentifier {
\*       if tempData.RecordBitswapAttempt() { m.requestWithBitswapAttempt.Add(ctx, 1) }
\*   } else {
\*       if tempData.RecordGraphsyncAttempt() { m.requestWithGraphSyncAttempt.Add(ctx, 1) } }
HandleStartedEvent_RecordAttempt(w) ==
    /\ pc[w] = "Record"
    /\ ev[w].name = "started"
    /\ ev[w].phase = "retrieval"
    /\ IF ev[w].sp = BitswapIndentifier
       THEN LET r == RecordBitswapAttempt(objs[tempData[w]])
            IN  /\ objs' = [objs EXCEPT ![tempData[w]] = r.t]
                /\ metrics' = IF r.first
                              THEN [metrics EXCEPT !.requestWithBitswapAttempt = @ + 1]
                              ELSE metrics
       ELSE LET r == RecordGraphsyncAttempt(objs[tempData[w]])
            IN  /\ objs' = [objs EXCEPT ![tempData[w]] = r.t]
                /\ metrics' = IF r.first
                              THEN [metrics EXCEPT !.requestWithGraphSyncAttempt = @ + 1]
                              ELSE metrics
    /\ hist' = [hist EXCEPT ![tempData[w]].attempts[ev[w].id] = @ + 1]
    /\ Return(w)
    /\ UNCHANGED <<internalMap, pool, timers, evCount, panics, reg, inserts,
                   summaries>>
    /\ UNCHANGED <<aggVars, spVars, httpVars, candVars>>

\* HandleCandidatesFoundEvent, candidateCount > 0:
\*   if tempData.RecordIndexerCandidates(eventTime, uint32(candidateCount)) {
\*       m.requestWithIndexerCandidatesCount.Add(ctx, 1)
\*       m.timeToFirstIndexerResult.Record(ctx, eventTime.Sub(tempData.StartTime())) }
HandleCandidatesFoundEvent_Record(w) ==
    /\ pc[w] = "Record"
    /\ ev[w].name = "candidates-found"
    /\ LET r == RecordIndexerCandidates(objs[tempData[w]], ev[w].time,
                                        Uint32(ev[w].candidateCount, 1))
       IN  /\ objs' = [objs EXCEPT ![tempData[w]] = r.t]
           /\ metrics' =
                IF r.first
                THEN [metrics EXCEPT
                        !.requestWithIndexerCandidatesCount = @ + 1,
                        !.timeToFirstIndexerResult =
                            Append(@, ev[w].time - r.t.startTime)]
                ELSE metrics
           /\ hist' = [hist EXCEPT
                          ![tempData[w]].found[ev[w].id] = @ + ev[w].candidateCount,
                          ![tempData[w]].firsts[ev[w].id] =
                              IF r.first THEN @ + 1 ELSE @]
    /\ Return(w)
    /\ UNCHANGED <<internalMap, pool, timers, evCount, panics, reg, inserts,
                   summaries>>
    /\ UNCHANGED <<aggVars, spVars, httpVars, candVars>>

\* HandleCandidatesFilteredEvent, candidateCount > 0:
\*   if tempData.RecordIndexerFilteredCandidates(uint32(candidateCount)) {
\*       m.requestWithIndexerCandidatesFilteredCount.Add(ctx, 1) }
HandleCandidatesFilteredEvent_Record(w) ==
    /\ pc[w] = "Record"
    /\ ev[w].name = "candidates-filtered"
    /\ LET r == RecordIndexerFilteredCandidates(objs[tempData[w]],
                                                Uint32(ev[w].candidateCount, 1))
       IN  /\ objs' = [objs EXCEPT ![tempData[w]] = r.t]
           /\ metrics' =
                IF r.first
                THEN [metrics EXCEPT !.requestWithIndexerCandidatesFilteredCount = @ + 1]
                ELSE metrics
    /\ Return(w)
    /\ UNCHANGED <<internalMap, pool, timers, evCount, panics, reg, hist, inserts,
                   summaries>>
    /\ UNCHANGED <<aggVars, spVars, httpVars, candVars>>

\* HandleTimeToFirstByteEvent:
\*   if tempData.RecordTimeToFirstByte(eventTime) {
\*       m.requestWithFirstByteReceivedCount.Add(ctx, 1, protocol)
\*       m.timeToFirstByte.Record(ctx, eventTime.Sub(tempData.StartTime()), protocol) }
HandleTimeToFirstByteEvent_Record(w) ==
    /\ pc[w] = "Record"
    /\ ev[w].name = "first-byte-received"
    /\ LET r == RecordTimeToFirstByte(objs[tempData[w]], ev[w].time)
       IN  /\ objs' = [objs EXCEPT ![tempData[w]] = r.t]
           /\ metrics' =
                IF r.first
                THEN [metrics EXCEPT
                        !.requestWithFirstByteReceivedCount = @ + 1,
                        !.timeToFirstByte =
                            Append(@, [protocol |-> protocolFromSpID(ev[w].sp),
                                       value |-> ev[w].time - r.t.startTime])]
                ELSE metrics
    /\ hist' = IF hist[tempData[w]].ttfb[ev[w].id] = 0
               THEN [hist EXCEPT ![tempData[w]].ttfb[ev[w].id] = ev[w].time]
               ELSE hist
    /\ Return(w)
    /\ UNCHANGED <<internalMap, pool, timers, evCount, panics, reg, inserts,
                   summaries>>
    /\ UNCHANGED <<aggVars, spVars, httpVars, candVars>>

(***************************************************************************)
(* The finalizing handlers after GetOrCreate                               *)
(***************************************************************************)
\* func (t *TempData) RecordFinality() { t.timer.Stop() }
\* Stop on a nil *time.Timer dereferences nil: the handler panics.  Stop on a
\* timer that fired or was stopped already changes nothing.
RecordFinality(w) ==
    /\ pc[w] = "RecordFinality"
    /\ LET k == objs[tempData[w]].timer
       IN  IF k = 0
           THEN /\ panics' = panics + 1
                /\ Return(w)
                /\ UNCHANGED timers
           ELSE /\ timers' = IF Armed(k) THEN [timers EXCEPT ![k].st = "stopped"]
                             ELSE timers
                /\ pc' = [pc EXCEPT ![w] = "LoadAndDelete"]
                /\ tempData' = [tempData EXCEPT ![w] = 0]
                /\ UNCHANGED <<ev, loaded, value, finalDetails, epoch, panics>>
    /\ UNCHANGED <<internalMap, pool, objs, metrics, evCount, reg, hist, inserts, summaries>>
    /\ UNCHANGED <<aggVars, spVars, httpVars, candVars>>

\* TempDataMap.Delete, first half:
\*   value, loaded := t.internalMap.LoadAndDelete(id)
\*   if loaded { finalValues := tempData.finalValues() ... } else return nil
Delete_LoadAndDelete(w) ==
    /\ pc[w] = "LoadAndDelete"
    /\ LET id == ev[w].id
           r == LoadAndDelete(internalMap, id)
       IN  /\ internalMap' = r.map
           /\ reg' = IF r.map[id] = 0 THEN [reg EXCEPT ![id] = NoReg] ELSE reg
           /\ IF r.loaded
              THEN /\ value' = [value EXCEPT ![w] = r.value]
                   /\ finalDetails' =
                        [finalDetails EXCEPT ![w] = finalValues(objs[r.value])]
                   /\ summaries' =
                        Append(summaries,
                               [id |-> id, ser |-> reg[id].ser,
                                failed |-> reg[id].failed, by |-> "event",
                                values |-> finalValues(objs[r.value])])
                   /\ pc' = [pc EXCEPT ![w] = "zeroOut"]
              ELSE /\ pc' = [pc EXCEPT ![w] = "Emit"]
                   /\ UNCHANGED <<value, finalDetails, summaries>>
    /\ UNCHANGED <<pool, objs, timers, ev, tempData, loaded, metrics, evCount,
                   panics, hist, epoch, inserts>>
    /\ UNCHANGED <<aggVars, spVars, httpVars, candVars>>

\* TempDataMap.Delete, second half:
\*   tempData.zeroOut(); tempDataPool.Put(tempData); return &finalValues
Delete_zeroOut(w) ==
    /\ pc[w] = "zeroOut"
    /\ objs' = [objs EXCEPT ![value[w]] = zeroOut(@)]
    /\ hist' = [hist EXCEPT ![value[w]] = NoHist]
    /\ pool' = pool \cup {value[w]}
    /\ value' = [value EXCEPT ![w] = 0]
    /\ pc' = [pc EXCEPT ![w] = "Emit"]
    /\ UNCHANGED <<internalMap, timers, ev, tempData, loaded, finalDetails, metrics,
                   evCount, panics, reg, epoch, inserts, summaries>>
    /\ UNCHANGED <<aggVars, spVars, httpVars, candVars>>

\* HandleFailureEvent, case types.IndexerPhase, after Delete:
\*   m.requestWithIndexerFailures.Add(ctx, 1)
HandleFailureEvent_Emit(w) ==
    /\ pc[w] = "Emit"
    /\ ev[w].name = "failed"
    /\ metrics' = [metrics EXCEPT !.requestWithIndexerFailures = @ + 1]
    /\ Return(w)
    /\ UNCHANGED <<internalMap, pool, objs, timers, evCount, panics, reg, hist, inserts,
                   summaries>>
    /\ UNCHANGED <<aggVars, spVars, httpVars, candVars>>

\* the success counters of HandleSuccessEvent (events.go lines 130-135)
SuccessCounters(m, sp) ==
    [m EXCEPT
       !.requestWithSuccessCount = @ + 1,
       !.requestWithBitswapSuccessCount =
           IF sp = BitswapIndentifier THEN @ + 1 ELSE @,
       !.requestWithGraphSyncSuccessCount =
           IF sp # BitswapIndentifier THEN @ + 1 ELSE @]

\* HandleSuccessEvent after finalDetails := m.tempDataMap.Delete(id): the
\* success counters, then the histograms read through finalDetails.  With
\* finalDetails nil the first of those reads panics, after the counters.
\* The bandwidth sample is int64(receivedSize/transferDuration); the model
\* records its two operands.
HandleSuccessEvent_Emit(w) ==
    /\ pc[w] = "Emit"
    /\ ev[w].name = "success"
    /\ IF finalDetails[w] = Nil
       THEN /\ metrics' = SuccessCounters(metrics, ev[w].sp)
            /\ panics' = panics + 1
       ELSE /\ metrics' =
                 [SuccessCounters(metrics, ev[w].sp) EXCEPT
                    !.retrievalDealDuration =
                        Append(@, ev[w].time - finalDetails[w].StartTime),
                    !.retrievalDealSize = Append(@, ev[w].receivedSize),
                    !.bandwidthBytesPerSecond =
                        Append(@, [bytes |-> ev[w].receivedSize,
                                   seconds |-> ev[w].time
                                                 - finalDetails[w].TimeToFirstByte]),
                    !.indexerCandidatesPerRequestCount =
                        Append(@, finalDetails[w].IndexerCandidates),
                    !.indexerCandidatesFilteredPerRequestCount =
                        Append(@, finalDetails[w].IndexerFiltered),
                    !.failedRetrievalsPerRequestCount =
                        Append(@, finalDetails[w].FailedCount)]
            /\ UNCHANGED panics
    /\ Return(w)
    /\ UNCHANGED <<internalMap, pool, objs, timers, evCount, reg, hist, inserts, summaries>>
    /\ UNCHANGED <<aggVars, spVars, httpVars, candVars>>

(***************************************************************************)
(* The eviction timers                                                     *)
(***************************************************************************)
\* A minute passes: every armed timer is a minute closer to firing.
Tick ==
    /\ \E k \in 1..Len(timers) : Armed(k) /\ timers[k].left > 0
    /\ timers' = [k \in 1..Len(timers) |->
                    IF Armed(k) /\ timers[k].left > 0
                    THEN [timers[k] EXCEPT !.left = @ - 1]
                    ELSE timers[k]]
    /\ UNCHANGED <<internalMap, pool, objs, pc, ev, tempData, loaded, value,
                   finalDetails, metrics, evCount, panics, reg, hist, epoch, inserts,
                   summaries>>
    /\ UNCHANGED <<aggVars, spVars, httpVars, candVars>>

\* The duration of time.AfterFunc has elapsed: the timer expires and its
\* callback is started in a goroutine of its own.  From here on Stop finds the
\* timer expired and changes nothing, while the callback has yet to run.
TimerExpire(k) ==
    /\ k \in DOMAIN timers
    /\ Armed(k)
    /\ timers[k].left = 0
    /\ timers' = [timers EXCEPT ![k].st = "expired"]
    /\ UNCHANGED <<internalMap, pool, objs, pc, ev, tempData, loaded, value,
                   finalDetails, metrics, evCount, panics, reg, hist, epoch, inserts,
                   summaries>>
    /\ UNCHANGED <<aggVars, spVars, httpVars, candVars>>

\* The callback of the expired timer runs t.Delete(id), first half.
TimerFire(k) ==
    /\ k \in DOMAIN timers
    /\ timers[k].st = "expired"
    /\ LET id == timers[k].id
           r == LoadAndDelete(internalMap, id)
       IN  /\ internalMap' = r.map
           /\ reg' = IF r.map[id] = 0 THEN [reg EXCEPT ![id] = NoReg] ELSE reg
           /\ IF r.loaded
              THEN /\ timers' = [timers EXCEPT ![k].st = "zeroOut",
                                               ![k].value = r.value]
                   /\ summaries' =
                        Append(summaries,
                               [id |-> id, ser |-> reg[id].ser,
                                failed |-> reg[id].failed, by |-> "timer",
                                values |-> finalValues(objs[r.value])])
              ELSE /\ timers' = [timers EXCEPT ![k].st = "done"]
                   /\ UNCHANGED summaries
    /\ UNCHANGED <<pool, objs, pc, ev, tempData, loaded, value, finalDetails,
                   metrics, evCount, panics, hist, epoch, inserts>>
    /\ UNCHANGED <<aggVars, spVars, httpVars, candVars>>

\* The callback's Delete, second half: zeroOut and tempDataPool.Put.
TimerZeroOut(k) ==
    /\ k \in DOMAIN timers
    /\ timers[k].st = "zeroOut"
    /\ objs' = [objs EXCEPT ![timers[k].value] = zeroOut(@)]
    /\ hist' = [hist EXCEPT ![timers[k].value] = NoHist]
    /\ pool' = pool \cup {timers[k].value}
    /\ timers' = [timers EXCEPT ![k].st = "done", ![k].value = 0]
    /\ UNCHANGED <<internalMap, pc, ev, tempData, loaded, value, finalDetails,
                   metrics, evCount, panics, reg, epoch, inserts, summaries>>
    /\ UNCHANGED <<aggVars, spVars, httpVars, candVars>>

(***************************************************************************)
(* The specification                                                       *)
(***************************************************************************)
WorkerStep(w) ==
    \/ Dispatch(w)
    \/ DispatchRetrievalFailure(w)
    \/ DispatchOther(w)
    \/ Handler_Return(w)
    \/ HandleFailureEvent_Retrieval(w)
    \/ GetOrCreate_LoadOrStore(w)
    \/ GetOrCreate_AfterFunc(w)
    \/ HandleStartedEvent_Record(w)
    \/ HandleStartedEvent_RecordAttempt(w)
    \/ HandleStartedEvent_NoCase(w)
    \/ HandleCandidatesFoundEvent_Record(w)
    \/ HandleCandidatesFilteredEvent_Record(w)
    \/ HandleTimeToFirstByteEvent_Record(w)
    \/ RecordFinality(w)
    \/ Delete_LoadAndDelete(w)
    \/ Delete_zeroOut(w)
    \/ HandleFailureEvent_Emit(w)
    \/ HandleSuccessEvent_Emit(w)

TimerStep(k) ==
    \/ TimerExpire(k)
    \/ TimerFire(k)
    \/ TimerZeroOut(k)

Next ==
    \/ \E w \in Workers : WorkerStep(w)
    \/ \E k \in TimerIds : TimerStep(k)
    \/ Tick

Spec == Init /\ [][Next]_vars

\* The retrieval-phase failures alone: HandleFailureEvent reads and writes
\* nothing but the error counters in that phase, so its classification is
\* checked apart from the handlers that share the state table.
ClassifyNext ==
    \E w \in Workers :
        \/ DispatchRetrievalFailure(w)
        \/ HandleFailureEvent_Retrieval(w)

ClassifySpec == Init /\ [][ClassifyNext]_vars

-----------------------------------------------------------------------------
\* The aggregate path: RecordAggregateEvents and Metrics.HandleAggregatedEvent.

ProtocolHttp == "http"

TransportBitswap == "transport-bitswap"
TransportGraphsyncFilecoinv1 == "transport-graphsync-filecoinv1"
TransportIpfsGatewayHttp == "transport-ipfs-gateway-http"

\* Variant without the three known cases: every string is returned as it is.
protocolFromMulticodecStringDefault(multicodecCodeString) == multicodecCodeString

\* protocolFromMulticodecString: the three known transports map to their
\* family, any other string is returned as it is.
protocolFromMulticodecString(multicodecCodeString) ==
    CASE multicodecCodeString = TransportBitswap -> ProtocolBitswap
      [] multicodecCodeString = TransportGraphsyncFilecoinv1 -> ProtocolGraphsync
      [] multicodecCodeString = TransportIpfsGatewayHttp -> ProtocolHttp
      [] OTHER -> multicodecCodeString

\* Duration strings of the wire format, and time.ParseDuration on them.
DurationStrings == {"1s", "2s"}

ParseDuration(str) ==
    CASE str = "1s" -> 1
      [] str = "2s" -> 2
      [] OTHER -> 0

\* Variant that never parses: the duration stays the zero value.
DurationZero(str) == 0

\* `var d time.Duration; if str != "" { d, _ = time.ParseDuration(str) }`
DurationOf(str) == IF str # "" THEN ParseDuration(str) ELSE 0

\* RetrievalAttempt values of the wire format.
RetrievalAttempts ==
    { [Error |-> <<>>, Protocol |-> TransportGraphsyncFilecoinv1,
       TimeToFirstByte |-> "1s"],
      [Error |-> <<"connection reset">>, Protocol |-> TransportIpfsGatewayHttp,
       TimeToFirstByte |-> "2s"],
      [Error |-> <<"failed to dial", ": ", "timeout after ">>,
       Protocol |-> TransportBitswap, TimeToFirstByte |-> ""] }

AttemptMaps ==
    UNION { [D -> RetrievalAttempts] : D \in {{}, {"sp1"}, {"sp1", "sp2"}} }

\* AggregateEvent values that pass AggregateEvent.Validate (start and end
\* time set, end not before start, durations parseable).
AggregateEvents ==
    { [Success |-> o.s,
       ProtocolSucceeded |-> o.p,
       StorageProviderID |-> IF o.s THEN "sp1" ELSE "",
       StartTime |-> st,
       EndTime |-> MaxTime,
       TimeToFirstByte |-> IF c = 0 THEN "" ELSE "2s",
       TimeToFirstIndexerResult |-> IF c = 0 THEN "" ELSE "1s",
       Bandwidth |-> 3 * c,
       BytesTransferred |-> 4 * c,
       IndexerCandidatesReceived |-> c,
       IndexerCandidatesFiltered |-> IF c = 0 THEN 0 ELSE c - 1,
       RetrievalAttempts |-> a] :
        o \in { [s |-> FALSE, p |-> ""], [s |-> TRUE, p |-> ""],
                [s |-> TRUE, p |-> TransportBitswap],
                [s |-> TRUE, p |-> TransportGraphsyncFilecoinv1],
                [s |-> TRUE, p |-> TransportIpfsGatewayHttp] },
        st \in Times, c \in {0, MaxCount}, a \in AttemptMaps }

\* The arguments RecordAggregateEvents passes for one element of events.
AggregateArgs(event) ==
    [timeToFirstIndexerResult |-> DurationOf(event.TimeToFirstIndexerResult),
     timeToFirstByte |-> DurationOf(event.TimeToFirstByte),
     success |-> event.Success,
     storageProviderID |-> event.StorageProviderID,
     startTime |-> event.StartTime,
     endTime |-> event.EndTime,
     bandwidth |-> event.Bandwidth,
     bytesTransferred |-> event.BytesTransferred,
     indexerCandidates |-> event.IndexerCandidatesReceived,
     indexerFiltered |-> event.IndexerCandidatesFiltered,
     attempts |-> [sp \in DOMAIN event.RetrievalAttempts |->
                     [Error |-> event.RetrievalAttempts[sp].Error,
                      Protocol |-> event.RetrievalAttempts[sp].Protocol,
                      TimeToFirstByte |->
                          DurationOf(event.RetrievalAttempts[sp].TimeToFirstByte)]],
     protocolSucceeded |-> event.ProtocolSucceeded]

\* The attempts of a call that carry a non-empty error.
Errored(attempts) == { sp \in DOMAIN attempts : attempts[sp].Error # <<>> }

\* failureCount after the range loop: each errored attempt adds 0 to it.
AggregateFailureCount(attempts) == 0 + Cardinality(Errored(attempts)) * 0

\* The counter one errored attempt may be added to: what getMatchingErrorMetric
\* returns, or retrievalErrorOtherCount when nothing matched.
ErrorCounters(msg) ==
    { IF r.matched THEN r.metric ELSE "retrievalErrorOtherCount" :
        r \in getMatchingErrorMetric(msg) }

\* What the range loop can add to the error-category counters for the errored
\* attempts sps: one counter of ErrorCounters is incremented per attempt.
RECURSIVE ErrorCounterAdds(_, _)
ErrorCounterAdds(attempts, sps) ==
    IF sps = {}
    THEN { [k \in ErrorMetrics |-> 0] }
    ELSE LET sp == CHOOSE x \in sps : TRUE
         IN  { [added EXCEPT ![k] = @ + 1] :
                 added \in ErrorCounterAdds(attempts, sps \ {sp}),
                 k \in ErrorCounters(attempts[sp].Error) }

\* lowestTTFB is never assigned, so every attempt with a time to first byte
\* overwrites lowestTTFBProtocol; the map is ranged over in any order.
LowestTTFBProtocols(attempts) ==
    LET timed == { sp \in DOMAIN attempts : attempts[sp].TimeToFirstByte # 0 }
    IN  IF timed = {} THEN {""}
        ELSE { protocolFromMulticodecString(attempts[sp].Protocol) : sp \in timed }

\* Metrics.HandleAggregatedEvent: the sinks it can leave, from sink m and the
\* call arguments a.
HandleAggregatedEvent(m, a) ==
    LET protocolAttempted(sp) == protocolFromMulticodecString(a.attempts[sp].Protocol)
        attempted(p) == IF \E sp \in DOMAIN a.attempts : protocolAttempted(sp) = p
                        THEN 1 ELSE 0
        errored(p) == Cardinality({ sp \in Errored(a.attempts) : protocolAttempted(sp) = p })
        failed(p) == errored(p)
        protocol == protocolFromMulticodecString(a.protocolSucceeded)
        failureCount == AggregateFailureCount(a.attempts)
        loop(added) ==
            [m EXCEPT
               !.totalRequestCount = @ + 1,
               !.requestWithBitswapAttempt = @ + attempted(ProtocolBitswap),
               !.requestWithGraphSyncAttempt = @ + attempted(ProtocolGraphsync),
               !.requestWithHttpAttempt = @ + attempted(ProtocolHttp),
               !.graphsyncRetrievalFailureCount = @ + failed(ProtocolGraphsync),
               !.httpRetrievalFailureCount = @ + failed(ProtocolHttp),
               !.retrievalError = [k \in ErrorMetrics |-> @[k] + added[k]],
               !.retrievalErrorProtocol = [p \in DOMAIN @ |-> @[p] + errored(p)]]
        funnel(n, lowestTTFBProtocol) ==
            [n EXCEPT
               !.timeToFirstIndexerResult =
                   IF a.timeToFirstIndexerResult > 0
                   THEN Append(@, a.timeToFirstIndexerResult) ELSE @,
               !.requestWithIndexerCandidatesCount =
                   IF a.indexerCandidates > 0 THEN @ + 1 ELSE @,
               !.requestWithIndexerCandidatesFilteredCount =
                   IF a.indexerFiltered > 0 THEN @ + 1 ELSE @,
               !.requestWithFirstByteReceivedCount =
                   IF a.timeToFirstByte > 0 THEN @ + 1 ELSE @,
               !.timeToFirstByte =
                   IF a.timeToFirstByte > 0
                   THEN Append(@, [protocol |-> lowestTTFBProtocol,
                                   value |-> a.timeToFirstByte])
                   ELSE @]
        outcome(n) ==
            IF a.success
            THEN [n EXCEPT
                    !.requestWithSuccessCount = @ + 1,
                    !.requestWithBitswapSuccessCount =
                        IF protocol = ProtocolBitswap THEN @ + 1 ELSE @,
                    !.requestWithGraphSyncSuccessCount =
                        IF protocol = ProtocolGraphsync THEN @ + 1 ELSE @,
                    !.requestWithHttpSuccessCount =
                        IF protocol = ProtocolHttp THEN @ + 1 ELSE @,
                    !.retrievalDealDuration = Append(@, a.endTime - a.startTime),
                    !.retrievalDealSize = Append(@, a.bytesTransferred),
                    !.bandwidthBytesPerSecond = Append(@, a.bandwidth),
                    !.indexerCandidatesPerRequestCount = Append(@, a.indexerCandidates),
                    !.indexerCandidatesFilteredPerRequestCount =
                        Append(@, a.indexerFiltered),
                    !.failedRetrievalsPerRequestCount = Append(@, failureCount)]
            ELSE IF DOMAIN a.attempts = {}
                 THEN [n EXCEPT !.requestWithIndexerFailures = @ + 1]
                 ELSE n
    IN  { outcome(funnel(loop(added), p)) :
            added \in ErrorCounterAdds(a.attempts, Errored(a.attempts)),
            p \in LowestTTFBProtocols(a.attempts) }

MaxBatch == 2

AggregateBatches ==
    UNION { [1..n -> AggregateEvents] : n \in 1..MaxBatch }

stateTableVars ==
    <<internalMap, pool, objs, timers, pc, ev, tempData, loaded, value,
      finalDetails, evCount, panics, reg, hist, epoch, inserts, summaries>>

\* RecordAggregateEvents is called with a validated batch.
RecordAggregateEvents_Begin ==
    /\ aggPc = "idle"
    /\ \E events \in AggregateBatches :
          aggEvents' = events
    /\ aggNext' = 1
    /\ aggPc' = "loop"
    /\ UNCHANGED <<aggCalls, metrics>>
    /\ UNCHANGED <<stateTableVars, spVars, httpVars, candVars>>

\* One iteration of `for _, event := range events`: the two inserts are
\* queued and, a metrics sink being configured, HandleAggregatedEvent runs.
RecordAggregateEvents_Handle ==
    /\ aggPc = "loop"
    /\ aggNext <= Len(aggEvents)
    /\ LET args == AggregateArgs(aggEvents[aggNext])
       IN  /\ metrics' \in HandleAggregatedEvent(metrics, args)
           /\ aggCalls' = Append(aggCalls, args)
    /\ aggNext' = aggNext + 1
    /\ UNCHANGED <<aggPc, aggEvents>>
    /\ UNCHANGED <<stateTableVars, spVars, httpVars, candVars>>

\* After the loop the two batches are sent and the call returns.
RecordAggregateEvents_SendBatch ==
    /\ aggPc = "loop"
    /\ aggNext > Len(aggEvents)
    /\ aggPc' = "done"
    /\ UNCHANGED <<aggEvents, aggNext, aggCalls, metrics>>
    /\ UNCHANGED <<stateTableVars, spVars, httpVars, candVars>>

AggregateNext ==
    \/ RecordAggregateEvents_Begin
    \/ RecordAggregateEvents_Handle
    \/ RecordAggregateEvents_SendBatch

AggregateSpec == Init /\ [][AggregateNext]_vars

-----------------------------------------------------------------------------
\* SPMap: NewSPMap and its options, Get, and the run goroutine.  Close has no
\* caller and is not modelled.

\* The options a caller can pass.
WithHeyFil(endpoint) == [kind |-> "WithHeyFil", arg |-> endpoint]
WithClient(client) == [kind |-> "WithClient", arg |-> client]

TestEndpoint == "ts.URL"
TestClient == "c"

OptionLists ==
    { <<>>,
      <<WithHeyFil(TestEndpoint)>>,
      <<WithClient(TestClient)>>,
      <<WithHeyFil(TestEndpoint), WithClient(TestClient)>> }

\* The body of an option, func(sc spConfig): it assigns a field of its
\* parameter sc; the result is the value of sc when the function returns.
OptionBody(o, sc) ==
    IF o.kind = "WithHeyFil"
    THEN [sc EXCEPT !.heyFilEndpoint = o.arg]
    ELSE [sc EXCEPT !.client = o.arg]

\* `for _, o := range opts { o(cf) }`: cf is passed by value, so each option
\* assigns to its own copy sc, which is dropped when the option returns.
RECURSIVE ApplyOptions(_, _)
ApplyOptions(cf, opts) ==
    IF opts = <<>> THEN cf
    ELSE LET sc == OptionBody(Head(opts), cf)
         IN  ApplyOptions(cf, Tail(opts))

\* What the lookup service can do with a request: answer a JSON list of
\* storage-provider identifiers, or fail (transport error, undecodable body).
SPLists == { <<>>, <<"f01", "f02">> }

Responses ==
    { [err |-> FALSE, sps |-> l] : l \in SPLists } \cup { [err |-> TRUE, sps |-> <<>>] }

\* SPMap.query: the decoded list, or an empty list on failure.
query(response) == IF response.err THEN <<>> ELSE response.sps

otherVars == <<stateTableVars, metrics, aggVars, httpVars, candVars>>

NewSPMap ==
    /\ run_pc = "none"
    /\ \E opts \in OptionLists :
          /\ sm_opts' = opts
          /\ sm_cfg' = ApplyOptions([heyFilEndpoint |-> DefaultEndpoint,
                                     client |-> DefaultClient], opts)
    /\ sm_cache' = [id \in Peers |-> NotCached]
    /\ sm_c' = <<>>
    /\ run_pc' = "range"
    /\ UNCHANGED <<chans, calls, run_t, lookups>>
    /\ UNCHANGED otherVars

\* Get up to the select: the response channel is made and the cache is read;
\* on a hit the first element, if any, is sent, the channel closed and returned.
Get_get(g) ==
    /\ run_pc # "none"
    /\ calls[g].pc = "none"
    /\ \A h \in GetCalls : h < g => calls[h].pc # "none"
    /\ \E id \in Peers :
          LET cached == sm_cache[id]
              first == IF Len(cached.v) > 0 THEN <<cached.v[1]>> ELSE <<>>
          IN  IF cached.ok
              THEN /\ chans' = [chans EXCEPT ![g] = [made |-> TRUE, buf |-> first,
                                                     closed |-> TRUE, sent |-> first]]
                   /\ calls' = [calls EXCEPT ![g].pc = "returned", ![g].id = id,
                                             ![g].how = "hit"]
              ELSE /\ chans' = [chans EXCEPT ![g].made = TRUE]
                   /\ calls' = [calls EXCEPT ![g].pc = "select", ![g].id = id]
    /\ UNCHANGED <<sm_cfg, sm_opts, sm_cache, sm_c, run_pc, run_t, lookups>>
    /\ UNCHANGED otherVars

\* Variant of the select of Get without the default case: the send waits for
\* room in the channel.
Get_selectBlocking(g) ==
    /\ calls[g].pc = "select"
    /\ Len(sm_c) < QueueCap
    /\ sm_c' = Append(sm_c, [query |-> calls[g].id, response |-> g,
                             resp |-> <<>>])
    /\ calls' = [calls EXCEPT ![g].pc = "returned", ![g].how = "queued"]
    /\ UNCHANGED chans
    /\ UNCHANGED <<sm_cfg, sm_opts, sm_cache, run_pc, run_t, lookups>>
    /\ UNCHANGED otherVars

\* The select of Get: the work item is sent if the channel has room, else the
\* response channel is closed; either way it is returned.
Get_select(g) ==
    /\ calls[g].pc = "select"
    /\ IF Len(sm_c) < QueueCap
       THEN /\ sm_c' = Append(sm_c, [query |-> calls[g].id, response |-> g,
                                     resp |-> <<>>])
            /\ calls' = [calls EXCEPT ![g].pc = "returned", ![g].how = "queued"]
            /\ UNCHANGED chans
       ELSE /\ chans' = [chans EXCEPT ![g].closed = TRUE]
            /\ calls' = [calls EXCEPT ![g].pc = "returned", ![g].how = "full"]
            /\ UNCHANGED sm_c
    /\ UNCHANGED <<sm_cfg, sm_opts, sm_cache, run_pc, run_t, lookups>>
    /\ UNCHANGED otherVars

\* run: `for t := range s.c` receives a work item and query sends the request.
run_Take ==
    /\ run_pc = "range"
    /\ sm_c # <<>>
    /\ run_t' = Head(sm_c)
    /\ sm_c' = Tail(sm_c)
    /\ lookups' = Append(lookups, [endpoint |-> sm_cfg.heyFilEndpoint,
                                   client |-> sm_cfg.client,
                                   peerid |-> Head(sm_c).query])
    /\ run_pc' = "query"
    /\ UNCHANGED <<sm_cfg, sm_opts, sm_cache, chans, calls>>
    /\ UNCHANGED otherVars

\* run: query returns and its result is stored with s.set.
run_Set ==
    /\ run_pc = "query"
    /\ \E response \in Responses :
          /\ run_t' = [run_t EXCEPT !.resp = query(response)]
          /\ sm_cache' = [sm_cache EXCEPT ![run_t.query] =
                            [ok |-> TRUE, v |-> query(response)]]
          /\ calls' = [calls EXCEPT ![run_t.response].answered = ~response.err,
                                    ![run_t.response].answer = response.sps]
    /\ run_pc' = "respond"
    /\ UNCHANGED <<sm_cfg, sm_opts, sm_c, chans, lookups>>
    /\ UNCHANGED otherVars

\* Variant that closes t.response only after sending a value on it.
run_RespondCloseOnValue ==
    /\ run_pc = "respond"
    /\ LET first == IF Len(run_t.resp) > 0 THEN <<run_t.resp[1]>> ELSE <<>>
       IN  chans' = [chans EXCEPT ![run_t.response].buf = @ \o first,
                                  ![run_t.response].sent = @ \o first,
                                  ![run_t.response].closed = (first # <<>>)]
    /\ run_t' = NoWork
    /\ run_pc' = "range"
    /\ UNCHANGED <<sm_cfg, sm_opts, sm_cache, sm_c, calls, lookups>>
    /\ UNCHANGED otherVars

\* run: the first element, if any, is sent on t.response, which is then closed.
run_Respond ==
    /\ run_pc = "respond"
    /\ LET first == IF Len(run_t.resp) > 0 THEN <<run_t.resp[1]>> ELSE <<>>
       IN  chans' = [chans EXCEPT ![run_t.response].buf = @ \o first,
                                  ![run_t.response].sent = @ \o first,
                                  ![run_t.response].closed = TRUE]
    /\ run_t' = NoWork
    /\ run_pc' = "range"
    /\ UNCHANGED <<sm_cfg, sm_opts, sm_cache, sm_c, calls, lookups>>
    /\ UNCHANGED otherVars

\* The caller receives from the channel Get returned: the buffered value, or
\* the zero value once the channel is closed and empty.
Receive(g) ==
    /\ calls[g].pc = "returned"
    /\ chans[g].buf # <<>> \/ chans[g].closed
    /\ calls' = [calls EXCEPT ![g].pc = "received",
                              ![g].got = IF chans[g].buf # <<>>
                                         THEN <<Head(chans[g].buf)>> ELSE <<"">>]
    /\ chans' = [chans EXCEPT ![g].buf = IF @ # <<>> THEN Tail(@) ELSE @]
    /\ UNCHANGED <<sm_cfg, sm_opts, sm_cache, sm_c, run_pc, run_t, lookups>>
    /\ UNCHANGED otherVars

SPMapNext ==
    \/ NewSPMap
    \/ \E g \in GetCalls : Get_get(g)
    \/ \E g \in GetCalls : Get_select(g)
    \/ run_Take
    \/ run_Set
    \/ run_Respond
    \/ \E g \in GetCalls : Receive(g)

SPMapSpec == Init /\ [][SPMapNext]_vars

\* The run goroutine and the goroutine executing Get keep running; a request
\* to the lookup service ends, with an answer or with an error.
SPMapFairSpec ==
    /\ SPMapSpec
    /\ WF_vars(run_Take)
    /\ WF_vars(run_Set)
    /\ WF_vars(run_Respond)
    /\ \A g \in GetCalls : WF_vars(Get_select(g))

-----------------------------------------------------------------------------
\* Validation of the wire formats and the HTTP ingress.

\* time.Now() at validation, the zero time.Time, and the times an event can
\* carry: zero, past, future.
Now == MaxTime
ZeroTime == 0
WireTimes == {ZeroTime, 1, Now + 1}

emptyRetrievalID == ""

eventCodes ==
    { "candidates-found", "candidates-filtered", "started", "connected",
      "query-asked", "query-asked-filtered", "proposed", "accepted",
      "first-byte-received", "failure", "success" }

\* Strings cid.Decode and peer.Decode accept, among those used below.
DecodableCids == { "bafkqaaa" }
DecodablePeers == { "12D3KooW" }

cidDecode(str) == IF str \in DecodableCids THEN "nil" ELSE "invalid cid"
peerDecode(str) == IF str \in DecodablePeers THEN "nil" ELSE "failed to parse peer ID"

\* Variant that takes every phase for a valid one.
validPhaseAny(phase) == TRUE

validPhase(phase) == phase \in {"indexer", "query", "retrieval"}

validEventCode(code) == code \in eventCodes

\* Event.Validate: the error of the first case of the switch that applies,
\* "nil" when none does.
EventValidate(e) ==
    IF e.RetrievalId = emptyRetrievalID THEN "property retrievalId is required"
    ELSE IF e.InstanceId = "" THEN "property instanceId is required"
    ELSE IF e.Cid = "" THEN "property cid is required"
    ELSE IF e.Phase = "" THEN "property phase is required"
    ELSE IF ~validPhase(e.Phase) THEN "errInvalidPhase"
    ELSE IF e.PhaseStartTime = ZeroTime THEN "property phaseStartTime is required"
    ELSE IF e.PhaseStartTime > Now THEN "property phaseStartTime cannot be in the future"
    ELSE IF e.EventName = "" THEN "property eventName is required"
    ELSE IF ~validEventCode(e.EventName) THEN "errInvalidEventCode"
    ELSE IF e.EventTime = ZeroTime THEN "property eventTime is required"
    ELSE IF e.EventTime > Now THEN "property eventTime cannot be in the future"
    ELSE IF cidDecode(e.Cid) # "nil" THEN "cid must be valid"
    ELSE IF e.StorageProviderId # "" /\ peerDecode(e.StorageProviderId) # "nil"
         THEN "storageProviderId must be valid"
    ELSE "nil"

\* The range loop of a batch's Validate: errs[k] is the result of Validate on
\* the k-th element; the first error from index i on, "nil" when there is none.
RECURSIVE FirstError(_, _)
FirstError(errs, i) ==
    IF i > Len(errs) THEN "nil"
    ELSE IF errs[i] # "nil" THEN errs[i]
    ELSE FirstError(errs, i + 1)

\* EventBatch.Validate.
EventBatchValidate(events) ==
    IF Len(events) = 0 THEN "property events is required"
    ELSE FirstError([k \in 1..Len(events) |-> EventValidate(events[k])], 1)

\* AggregateEvent.Validate.
DurationParses(str) == str \in DurationStrings

AggregateEventValidate(e) ==
    IF e.RetrievalID = "" THEN "property retrievalId is required"
    ELSE IF e.InstanceID = "" THEN "property instanceId is required"
    ELSE IF e.StartTime = ZeroTime THEN "property startTime is required"
    ELSE IF e.EndTime = ZeroTime THEN "property endTime is required"
    ELSE IF e.EndTime < e.StartTime THEN "property endTime cannot be before startTime"
    ELSE IF e.TimeToFirstByte # "" /\ ~DurationParses(e.TimeToFirstByte)
         THEN "time: invalid duration"
    ELSE IF e.TimeToFirstIndexerResult # ""
              /\ ~DurationParses(e.TimeToFirstIndexerResult)
         THEN "time: invalid duration"
    ELSE IF \E sp \in DOMAIN e.RetrievalAttempts : e.RetrievalAttempts[sp].isNil
         THEN "all retrieval attempts should have values"
    ELSE IF \E sp \in DOMAIN e.RetrievalAttempts :
               /\ e.RetrievalAttempts[sp].TimeToFirstByte # ""
               /\ ~DurationParses(e.RetrievalAttempts[sp].TimeToFirstByte)
         THEN "time: invalid duration"
    ELSE "nil"

\* AggregateEventBatch.Validate.
AggregateEventBatchValidate(events) ==
    IF Len(events) = 0 THEN "property events is required"
    ELSE FirstError([k \in 1..Len(events) |-> AggregateEventValidate(events[k])], 1)

\* Decoded events of the v1 wire format.
WireEvents ==
    [RetrievalId : {emptyRetrievalID, "r1"},
     InstanceId : {"", "i1"},
     Cid : {"", "not-a-cid", "bafkqaaa"},
     StorageProviderId : {"", "not-a-peer", "12D3KooW"},
     Phase : {"", "indexer", "query", "retrieval", "bogus"},
     PhaseStartTime : WireTimes,
     EventName : {"", "started", "connected", "success", "bogus"},
     EventTime : WireTimes]

GoodEvent ==
    [RetrievalId |-> "r1", InstanceId |-> "i1", Cid |-> "bafkqaaa",
     StorageProviderId |-> "12D3KooW", Phase |-> "retrieval", PhaseStartTime |-> 1,
     EventName |-> "started", EventTime |-> 1]

\* Decoded aggregate events of the v2 wire format (the members Validate reads).
WireAttemptMaps ==
    { [sp \in {} |-> 0] }
      \cup { [sp \in {"sp1"} |-> [isNil |-> n, TimeToFirstByte |-> t]] :
               n \in BOOLEAN, t \in {"", "1s", "soon"} }

WireAggregateEvents ==
    [RetrievalID : {"", "r1"},
     InstanceID : {"", "i1"},
     StartTime : {ZeroTime, 1, Now},
     EndTime : {ZeroTime, 1},
     TimeToFirstByte : {"", "1s", "soon"},
     TimeToFirstIndexerResult : {"", "1s", "soon"},
     RetrievalAttempts : WireAttemptMaps]

GoodAggregateEvent ==
    [RetrievalID |-> "r1", InstanceID |-> "i1", StartTime |-> 1, EndTime |-> 1,
     TimeToFirstByte |-> "1s", TimeToFirstIndexerResult |-> "",
     RetrievalAttempts |-> [sp \in {"sp1"} |-> [isNil |-> FALSE,
                                                TimeToFirstByte |-> "1s"]]]

\* Batches of up to MaxBatch events: the empty one, and those in which every
\* element but one is the good event.
BatchesOf(events, good) ==
    { <<>> } \cup { [j \in 1..n |-> IF j = i THEN e ELSE good] :
                      n \in 1..MaxBatch, i \in 1..MaxBatch, e \in events }

\* Content-Type values, as the fragments they are made of.
ContentTypes ==
    { <<>>, <<"application/json">>, <<"application/json", "; charset=utf-8">>,
      <<"text/plain">>, <<"text/plain; ", "application/json">> }

\* strings.HasPrefix.
HasPrefix(str, prefix) == Len(str) > 0 /\ str[1] = prefix

\* Requests: the body is looked at only for a POST with a JSON content type.
Requests(path, batches) ==
    { [path |-> path, method |-> m, contentType |-> ct, decodes |-> FALSE,
       batch |-> <<>>] : m \in {"POST", "GET"}, ct \in ContentTypes }
      \cup { [path |-> path, method |-> "POST", contentType |-> ct, decodes |-> TRUE,
              batch |-> b] :
               ct \in { t \in ContentTypes : HasPrefix(t, "application/json") },
               b \in batches }

\* Variant without the call of batch.Validate.
ChecksNoValidate(req, err) ==
    IF req.method # "POST" THEN [status |-> 405, err |-> ""]
    ELSE IF ~HasPrefix(req.contentType, "application/json") THEN [status |-> 400, err |-> ""]
    ELSE IF ~req.decodes THEN [status |-> 400, err |-> ""]
    ELSE [status |-> 0, err |-> "nil"]

\* The checks both handlers make before they call the recorder: the status
\* they answer with (0 when the batch goes to the recorder) and the error of
\* batch.Validate, which is err when the handler gets that far.
Checks(req, err) ==
    IF req.method # "POST" THEN [status |-> 405, err |-> ""]
    ELSE IF ~HasPrefix(req.contentType, "application/json") THEN [status |-> 400, err |-> ""]
    ELSE IF ~req.decodes THEN [status |-> 400, err |-> ""]
    ELSE IF err # "nil" THEN [status |-> 400, err |-> err]
    ELSE [status |-> 0, err |-> "nil"]

ingressFrame == <<stateTableVars, metrics, aggVars, spVars, candVars>>

\* A handler, with an idle connection: the request is read and checked.
Handle(req, err) ==
    /\ http_req' = req
    /\ http_status' = Checks(req, err).status
    /\ http_err' = Checks(req, err).err
    /\ http_pc' = IF Checks(req, err).status = 0 THEN "recorder" ELSE "done"
    /\ UNCHANGED <<http_calls, db>>
    /\ UNCHANGED ingressFrame

handleRetrievalEvents ==
    /\ http_pc = "idle"
    /\ \E req \in Requests("/v1/retrieval-events", BatchesOf(WireEvents, GoodEvent)) :
          Handle(req, EventBatchValidate(req.batch))

handleRetrievalEventsV2 ==
    /\ http_pc = "idle"
    /\ \E req \in Requests("/v2/retrieval-events",
                           BatchesOf(WireAggregateEvents, GoodAggregateEvent)) :
          Handle(req, AggregateEventBatchValidate(req.batch))

\* The handler RecordEvents calls for an event, "" when it calls none.
MetricsHandler(eventName) ==
    CASE eventName = "started" -> "HandleStartedEvent"
      [] eventName = "candidates-found" -> "HandleCandidatesFoundEvent"
      [] eventName = "candidates-filtered" -> "HandleCandidatesFilteredEvent"
      [] eventName = "failure" -> "HandleFailureEvent"
      [] eventName = "first-byte-received" -> "HandleTimeToFirstByteEvent"
      [] eventName = "success" -> "HandleSuccessEvent"
      [] OTHER -> ""

\* RecordEvents, the loop: an insert is queued and the handler called for each
\* event, in order.
RecordEvents_Loop ==
    /\ http_pc = "recorder"
    /\ http_req.path = "/v1/retrieval-events"
    /\ http_calls' = http_calls \o
          [i \in 1..Len(http_req.batch) |-> MetricsHandler(http_req.batch[i].EventName)]
    /\ http_pc' = "SendBatch"
    /\ UNCHANGED <<http_req, http_err, http_status, db>>
    /\ UNCHANGED ingressFrame

\* RecordAggregateEvents, the loop, as the ingress sees it.
RecordAggregateEvents_Loop ==
    /\ http_pc = "recorder"
    /\ http_req.path = "/v2/retrieval-events"
    /\ http_calls' = http_calls \o
          [i \in 1..Len(http_req.batch) |-> "HandleAggregatedEvent"]
    /\ http_pc' = "SendBatch"
    /\ UNCHANGED <<http_req, http_err, http_status, db>>
    /\ UNCHANGED ingressFrame

\* What the database holds of a request once every batch of it was sent.
Persisted(req) ==
    IF req.path = "/v1/retrieval-events"
    THEN << [table |-> "events", rows |-> req.batch] >>
    ELSE << [table |-> "events", rows |-> req.batch],
            [table |-> "attempts", rows |-> req.batch] >>

\* SendBatch: the batch is persisted and the handler answers 200, or the
\* recorder returns the error of the database and the handler answers 500.
\* RecordAggregateEvents sends two batches, the events then their attempts.
SendBatch ==
    /\ http_pc = "SendBatch"
    /\ \/ /\ db' = db \o Persisted(http_req)
          /\ http_status' = 200
       \/ /\ db' = db
          /\ http_status' = 500
       \/ /\ http_req.path = "/v2/retrieval-events"
          /\ db' = Append(db, [table |-> "events", rows |-> http_req.batch])
          /\ http_status' = 500
    /\ http_pc' = "done"
    /\ UNCHANGED <<http_req, http_err, http_calls>>
    /\ UNCHANGED ingressFrame

IngressNext ==
    \/ handleRetrievalEvents
    \/ handleRetrievalEventsV2
    \/ RecordEvents_Loop
    \/ RecordAggregateEvents_Loop
    \/ SendBatch

IngressSpec == Init /\ [][IngressNext]_vars


(***************************************************************************)
(* Properties                                                              *)
(***************************************************************************)
\* worker w takes a step
Steps(w) == pc'[w] # pc[w]

\* the positions at which a handler holds the state GetOrCreate returned
Holding == {"AfterFunc", "Record", "RecordFinality"}

\* no entry of id was removed since worker w called LoadOrStore
NoDeleteSince(w) == epoch[w] = NumDeleted(ev[w].id)

\* the aggregation fields of a state are all zero
AggregationZero(t) == t = zeroOut(t)

\* C1: a success event handled when the state of its identifier has already
\* been finalized (LoadOrStore finds no entry although one was removed before)
\* is a no-op: the rest of the handler changes no counter and no histogram.
C1_DuplicateSuccessIsNoOp ==
    [][\A w \in Workers :
          ( /\ ev[w].name = "success"
            /\ pc[w] = "Emit"
            /\ ~loaded[w]
            /\ epoch[w] > 0
            /\ Steps(w) )
          => metrics' = metrics]_vars

\* C2: each state registered in the table yields exactly one summary: no two
\* non-nil results of Delete belong to the same registration, whether they come
\* from a terminal handler or from the timer, and a registration has a summary
\* exactly when it is no longer in the table.
C2_OneSummaryPerState ==
    /\ \A a, b \in 1..Len(summaries) :
          summaries[a].ser = summaries[b].ser => a = b
    /\ \A n \in 1..inserts :
          (\E id \in Ids : internalMap[id] # 0 /\ reg[id].ser = n)
              <=> ~(\E a \in 1..Len(summaries) : summaries[a].ser = n)

\* C2 witness: a terminal handler loaded the state, the timer removed it and
\* produced its summary, and the handler's own Delete then returned nil.
C2_Witness ==
    \E w \in Workers :
        /\ pc[w] = "Emit"
        /\ loaded[w]
        /\ finalDetails[w] = Nil
        /\ \E a \in 1..Len(summaries) :
              /\ summaries[a].id = ev[w].id
              /\ summaries[a].by = "timer"

\* C3: GetOrCreate calls for one identifier with no Delete of it in between
\* return the same instance, the one in the table, and exactly one eviction
\* timer is scheduled for it, by the call that inserted it.
C3_SameInstanceOneTimer ==
    /\ \A w \in Workers :
          pc[w] \in Holding /\ NoDeleteSince(w)
              => tempData[w] # 0 /\ tempData[w] = internalMap[ev[w].id]
    /\ \A a, b \in 1..Len(timers) :
          timers[a].id = timers[b].id /\ timers[a].epoch = timers[b].epoch
              => a = b
    /\ \A id \in Ids :
          internalMap[id] # 0 =>
              LET scheduled ==
                      { k \in 1..Len(timers) :
                          /\ timers[k].id = id
                          /\ timers[k].epoch = NumDeleted(id)
                          /\ timers[k].obj = internalMap[id] }
                  inserting ==
                      { w \in Workers :
                          pc[w] = "AfterFunc" /\ ev[w].id = id /\ NoDeleteSince(w) }
              IN  Cardinality(scheduled) + Cardinality(inserting) = 1

\* C3 witness: two handlers hold the same state of one identifier, one call
\* inserted it and has scheduled its timer, the other loaded it.
C3_Witness ==
    \E v, w \in Workers :
        /\ v # w
        /\ pc[v] \in Holding \ {"AfterFunc"}
        /\ pc[w] \in Holding
        /\ ev[v].id = ev[w].id
        /\ ~loaded[v]
        /\ loaded[w]
        /\ tempData[v] = tempData[w]
        /\ objs[tempData[v]].timer # 0

\* C4: a handler writes only to the state registered under its own
\* identifier: never to a state that Delete has removed and pooled, and never
\* to the state registered under another identifier.
C4_NoWriteAfterRecycle ==
    [][\A w \in Workers :
          pc[w] = "Record" /\ Steps(w) =>
              /\ objs' # objs => Live(w)
              /\ \A y \in Ids \ {ev[w].id} :
                    internalMap[y] # 0 => objs'[internalMap[y]] = objs[internalMap[y]]
      ]_vars

\* C5: a state is inserted into the table with all aggregation fields zero.
C5_InsertedStateIsZero ==
    [][\A id \in Ids :
          internalMap[id] = 0 /\ internalMap'[id] # 0
              => AggregationZero(objs'[internalMap'[id]])]_vars

\* C6: once a started event of an identifier has been processed on the state
\* registered under it, the recorded start time of that state is the
\* timestamp of the first such event.
C6_StartTimeIsFirstStarted ==
    \A id \in Ids :
        internalMap[id] # 0 /\ hist[internalMap[id]].started[id] # 0
            => objs[internalMap[id]].startTime = hist[internalMap[id]].started[id]

\* C7: the candidate count of the state registered under an identifier is
\* the sum of the counts of the candidates-found events of that identifier
\* processed on it, and exactly one of them was treated as the first.
C7_CandidatesSumOneFirst ==
    \A id \in Ids :
        internalMap[id] # 0 /\ hist[internalMap[id]].found[id] > 0
            => /\ objs[internalMap[id]].indexerCandidates
                     = hist[internalMap[id]].found[id]
               /\ hist[internalMap[id]].firsts[id] = 1

\* C8: every state inserted into the table is removed even if no terminal
\* event arrives; in the form a finite run refutes: when no handler is running
\* and no eviction timer is pending any more, the table is empty.
C8_NoStateLeftWithoutTimer ==
    ( /\ \A w \in Workers : pc[w] = "idle"
      /\ \A k \in 1..Len(timers) : timers[k].st \in {"stopped", "done"} )
        => \A id \in Ids : internalMap[id] = 0

\* C9: a timer is armed once, with the full timeout, by the call that inserted
\* its state; its remaining time only decreases and it is never re-armed; and no
\* step of a non-terminal handler (started of either phase, candidates-found,
\* candidates-filtered, first-byte) changes a timer that exists.
C9_TimerArmedOnceNeverReset ==
    [][/\ Len(timers') >= Len(timers)
       /\ \A k \in 1..Len(timers) :
             /\ timers'[k].id = timers[k].id
             /\ timers'[k].left <= timers[k].left
             /\ timers[k].st # "armed" => timers'[k].st # "armed"
       /\ Len(timers') > Len(timers) =>
             /\ Len(timers') = Len(timers) + 1
             /\ timers'[Len(timers')].st = "armed"
             /\ timers'[Len(timers')].left = timeout
             /\ \E w \in Workers :
                   /\ pc[w] = "AfterFunc" /\ Steps(w) /\ ~loaded[w]
                   /\ timers'[Len(timers')].id = ev[w].id
       /\ \A w \in Workers :
             Steps(w) /\ ~Finalizes(ev[w])
                 => \A k \in 1..Len(timers) : timers'[k] = timers[k]
      ]_vars

\* C9 witness: a started or candidates-found event has been recorded on a live
\* state whose timer, armed at insertion, has already run down a minute.
C9_Witness ==
    \E id \in Ids :
        /\ internalMap[id] # 0
        /\ \/ hist[internalMap[id]].started[id] # 0
           \/ hist[internalMap[id]].found[id] > 0
        /\ \E k \in 1..Len(timers) :
              /\ objs[internalMap[id]].timer = k
              /\ timers[k].id = id
              /\ Armed(k)
              /\ timers[k].left < timeout

\* the metric of the earliest entry of errorMetricMatches, in the order of the
\* table, whose pattern msg contains; the other counter when there is none
PriorityMetric(msg) ==
    LET hits == { i \in 1..Len(errorMetricMatches) :
                    Contains(msg, errorMetricMatches[i].substr) }
    IN  IF hits = {} THEN "retrievalErrorOtherCount"
        ELSE errorMetricMatches[Min(hits)].metric

\* C10: a retrieval-phase failure increments the counter of the earliest
\* matching pattern of the table, or the other counter, and no other.
C10_PriorityClassification ==
    [][\A w \in Workers :
          pc[w] = "Classify" /\ Steps(w) =>
              metrics'.retrievalError =
                  [metrics.retrievalError EXCEPT ![PriorityMetric(ev[w].error)] = @ + 1]
      ]_vars

\* C11: every summary carries, as its failure count, the number of
\* retrieval-phase failed events of its identifier that were handled while the
\* summarized state was registered.
C11_FailureCountCounted ==
    \A a \in 1..Len(summaries) :
        summaries[a].values.FailedCount = summaries[a].failed

\* worker w ends its handler in this step, by returning or by a panic
Ends(w) == pc[w] # "idle" /\ pc'[w] = "idle"

\* C12: when the handler of an indexer-phase failed event ends, the
\* registration it obtained from GetOrCreate has been removed from the table,
\* the eviction timer of that registration is not pending and cannot be armed
\* any more, and the indexer-failure counter has risen by exactly one.
C12_IndexerFailureIsTerminal ==
    [][\A w \in Workers :
          ( /\ ev[w].name = "failed"
            /\ ev[w].phase = "indexer"
            /\ Ends(w) )
          => /\ NumDeleted(ev[w].id) > epoch[w]
             /\ \A k \in 1..Len(timers) :
                   timers[k].id = ev[w].id /\ timers[k].epoch = epoch[w]
                       => ~Armed(k)
             /\ \A v \in Workers :
                   ~( /\ pc[v] = "AfterFunc"
                      /\ ev[v].id = ev[w].id
                      /\ epoch[v] = epoch[w] )
             /\ metrics'.requestWithIndexerFailures
                   = metrics.requestWithIndexerFailures + 1
      ]_vars

\* C13: when the handler of a success event returns, with or without a
\* received size in its details, the state that was registered under its
\* identifier has been removed: the table has no entry for the identifier, or
\* an entry of it was removed since the handler looked the identifier up.
C13_SuccessAlwaysFinalizes ==
    [][\A w \in Workers :
          ( /\ ev[w].name = "success"
            /\ Ends(w)
            /\ panics' = panics )
          => \/ internalMap[ev[w].id] = 0
             \/ NumDeleted(ev[w].id) > epoch[w]
      ]_vars

\* an event whose (phase, code) pair has no dispatch entry
NoDispatchEntry(e) ==
    \/ e.name \in OtherCodes
    \/ e.name \in {"started", "failed"} /\ e.phase = "query"

\* C14: no step of the handling of an event without a dispatch entry changes
\* the table, a state, a timer, a counter or a histogram.
C14_UndispatchedChangesNothing ==
    [][\A w \in Workers :
          NoDispatchEntry(ev[w]) /\ Steps(w)
              => UNCHANGED <<internalMap, objs, timers, metrics>>
      ]_vars

\* the details of e are not an object, or lack the member its handler asserts
Malformed(e) ==
    /\ e.name \in DOMAIN ExpectedField
    /\ ~(e.details = "object" /\ ExpectedField[e.name] \in e.fields)

\* C15: the handler of a candidates-found, candidates-filtered, failed or
\* success event with malformed details returns normally in its first step
\* and changes no counter and no histogram.
C15_MalformedDetailsSkipped ==
    [][\A w \in Workers :
          /\ Malformed(ev'[w]) => pc'[w] = "Return"
          /\ Malformed(ev[w]) /\ Steps(w)
                => /\ pc'[w] = "idle"
                   /\ metrics' = metrics
                   /\ panics' = panics
      ]_vars

\* C15 witness: a handler is returning from an event with malformed details
\* while a state is registered under the identifier of the event.
C15_Witness ==
    \E w \in Workers :
        /\ Malformed(ev[w])
        /\ pc[w] = "Return"
        /\ internalMap[ev[w].id] # 0

-----------------------------------------------------------------------------
\* The aggregate path.

\* The step of RecordAggregateEvents that handles element aggNext of events.
HandlesRecord == aggPc = "loop" /\ aggNext' = aggNext + 1

\* Counter k is a category of message msg: a counter whose substring occurs in
\* msg, or the "other" counter when no substring occurs in it.
IsCategoryOf(k, msg) ==
    \/ \E i \in 1..Len(errorMetricMatches) :
          errorMetricMatches[i].metric = k /\ Contains(msg, errorMetricMatches[i].substr)
    \/ /\ k = "retrievalErrorOtherCount"
       /\ \A i \in 1..Len(errorMetricMatches) : ~Contains(msg, errorMetricMatches[i].substr)

\* C16: handling one successful aggregate record adds one to the overall
\* success counter and one to the success counter of the family of the
\* record's succeeding protocol (and to no other family's), appends one
\* deal-duration sample equal to end time minus start time and one deal-size
\* sample equal to the record's byte count, and adds, for each attempt with a
\* non-empty error, one to exactly one error-category counter that is a
\* category of that error.
C16_SuccessfulRecordUpdates ==
    [][(HandlesRecord /\ aggEvents[aggNext].Success) =>
        LET e == aggEvents[aggNext]
            errs == { sp \in DOMAIN e.RetrievalAttempts :
                        e.RetrievalAttempts[sp].Error # <<>> }
            one(b) == IF b THEN 1 ELSE 0
        IN  /\ metrics'.requestWithSuccessCount = metrics.requestWithSuccessCount + 1
            /\ metrics'.requestWithBitswapSuccessCount =
                 metrics.requestWithBitswapSuccessCount
                   + one(e.ProtocolSucceeded = "transport-bitswap")
            /\ metrics'.requestWithGraphSyncSuccessCount =
                 metrics.requestWithGraphSyncSuccessCount
                   + one(e.ProtocolSucceeded = "transport-graphsync-filecoinv1")
            /\ metrics'.requestWithHttpSuccessCount =
                 metrics.requestWithHttpSuccessCount
                   + one(e.ProtocolSucceeded = "transport-ipfs-gateway-http")
            /\ metrics'.retrievalDealDuration =
                 Append(metrics.retrievalDealDuration, e.EndTime - e.StartTime)
            /\ metrics'.retrievalDealSize =
                 Append(metrics.retrievalDealSize, e.BytesTransferred)
            /\ \E c \in [errs -> ErrorMetrics] :
                  /\ \A sp \in errs : IsCategoryOf(c[sp], e.RetrievalAttempts[sp].Error)
                  /\ \A k \in ErrorMetrics :
                        metrics'.retrievalError[k] =
                          metrics.retrievalError[k]
                            + Cardinality({ sp \in errs : c[sp] = k })]_vars

\* A successful record over graphsync with two errored attempts, one of them
\* in no category, has been handled.
C16_Witness ==
    /\ Len(aggCalls) = 1
    /\ aggCalls[1].success
    /\ aggCalls[1].protocolSucceeded = TransportGraphsyncFilecoinv1
    /\ Cardinality(Errored(aggCalls[1].attempts)) = 2
    /\ metrics.requestWithSuccessCount = 1
    /\ metrics.requestWithGraphSyncSuccessCount = 1
    /\ metrics.retrievalError["retrievalErrorOtherCount"] = 1
    /\ metrics.retrievalError["retrievalErrorTimeoutCount"] = 1
    /\ Len(metrics.retrievalDealDuration) = 1

\* C17: the failures-per-request sample appended for a successful aggregate
\* record equals the number of that record's attempts with a non-empty error.
C17_FailureSampleCountsErroredAttempts ==
    [][(HandlesRecord /\ aggEvents[aggNext].Success) =>
        LET e == aggEvents[aggNext]
            errs == { sp \in DOMAIN e.RetrievalAttempts :
                        e.RetrievalAttempts[sp].Error # <<>> }
        IN  metrics'.failedRetrievalsPerRequestCount =
              Append(metrics.failedRetrievalsPerRequestCount, Cardinality(errs))]_vars

-----------------------------------------------------------------------------
\* SPMap.

C20_OptionsTakeEffect ==
    \A i \in 1..Len(lookups) : \A j \in 1..Len(sm_opts) :
        /\ sm_opts[j].kind = "WithHeyFil" => lookups[i].endpoint = sm_opts[j].arg
        /\ sm_opts[j].kind = "WithClient" => lookups[i].client = sm_opts[j].arg

\* C21: lookups for different identifiers run concurrently: while the lookup
\* for one identifier waits for the service and a work item for another
\* identifier is queued, the lookup for that other identifier can start.
C21_QueuedLookupCanStart ==
    (run_pc = "query" /\ sm_c # <<>> /\ Head(sm_c).query # run_t.query)
        => ENABLED run_Take

\* The lookup of call g has failed: it was queued, run has closed its channel
\* and the service did not answer it with a list.
LookupFailed(g) ==
    calls[g].how = "queued" /\ chans[g].closed /\ ~calls[g].answered

\* C22: a failed lookup is a cache miss: nothing is sent on its channel, and
\* an identifier has a cache entry only if some lookup for it was answered by
\* the service, so that a Get after failed lookups only is not a cache hit.
C22_FailedLookupNotCached ==
    /\ \A g \in GetCalls : LookupFailed(g) => chans[g].sent = <<>>
    /\ \A id \in Peers :
          sm_cache[id].ok => \E g \in GetCalls : calls[g].id = id /\ calls[g].answered
    /\ \A g \in GetCalls :
          calls[g].how = "hit"
            => \E h \in GetCalls : calls[h].id = calls[g].id /\ calls[h].answered

-----------------------------------------------------------------------------
\* HTTP ingress and validation.

\* The recorder was invoked for the request being handled.
RecorderInvoked ==
    \/ http_pc \in {"recorder", "SendBatch"}
    \/ http_calls # <<>>
    \/ db # <<>>
    \/ http_status \in {200, 500}

\* C23: the recorder is invoked only for a POST whose content type starts
\* with application/json, whose body decodes and whose events all validate;
\* a request that is not such a one is answered 405 (method) or 400 with no
\* handler called and nothing persisted; once the recorder has returned, the
\* status is 500 exactly when it returned an error (not everything persisted).
C23_IngressGate ==
    http_pc # "idle" =>
        LET req == http_req
            json == req.contentType \in { <<"application/json">>,
                                           <<"application/json", "; charset=utf-8">> }
            valid == IF req.path = "/v1/retrieval-events"
                     THEN \A i \in 1..Len(req.batch) : EventValidate(req.batch[i]) = "nil"
                     ELSE \A i \in 1..Len(req.batch) :
                              AggregateEventValidate(req.batch[i]) = "nil"
            ok == req.method = "POST" /\ json /\ req.decodes /\ valid
        IN  /\ RecorderInvoked => ok
            /\ ~ok => /\ http_pc = "done"
                      /\ http_status = IF req.method # "POST" THEN 405 ELSE 400
                      /\ http_calls = <<>>
                      /\ db = <<>>
            /\ (http_pc = "done" /\ RecorderInvoked) =>
                  /\ http_status \in {200, 500}
                  /\ http_status = 500 <=> db # Persisted(req)

\* A batch of two events went to the recorder, which called a handler and
\* then failed: the answer is 500.
C23_Witness ==
    /\ http_pc = "done"
    /\ http_status = 500
    /\ Len(http_req.batch) = 2
    /\ http_calls # <<>>

\* An event that none of the listed reasons rejects.
Acceptable(e) ==
    /\ e.RetrievalId # ""
    /\ e.InstanceId # ""
    /\ e.Cid = "bafkqaaa"
    /\ e.Phase \in {"indexer", "query", "retrieval"}
    /\ e.EventName \in { "accepted", "candidates-filtered", "candidates-found",
                         "connected", "failure", "first-byte-received", "proposed",
                         "query-asked", "query-asked-filtered", "started", "success" }
    /\ e.PhaseStartTime \in 1..MaxTime
    /\ e.EventTime \in 1..MaxTime
    /\ e.StorageProviderId \in {"", "12D3KooW"}

Pending(k) == timers[k].st \in {"armed", "expired"}

\* the registration timer k was armed for is the one now in the table
OwnInstance(k) ==
    /\ internalMap[timers[k].id] = timers[k].obj
    /\ timers[k].epoch = NumDeleted(timers[k].id)

\* the registration summary a belongs to was the n-th of its identifier,
\* counting from 0
EpochOf(a) ==
    Cardinality({ b \in 1..(a - 1) : summaries[b].id = summaries[a].id })

\* C25: once a terminal event has finalized a state, the eviction timer of
\* that registration is no longer pending, and a timer whose callback removes
\* an entry removes the instance it was armed for and no other: never a fresh
\* state registered later under the same identifier.
C25_TimerEvictsOwnInstanceOnly ==
    [][/\ \A a \in 1..Len(summaries) :
             summaries[a].by = "event" =>
                 \A k \in 1..Len(timers) :
                     ( /\ timers[k].id = summaries[a].id
                       /\ timers[k].epoch = EpochOf(a) )
                     => ~Pending(k)
       /\ \A k \in 1..Len(timers) :
             timers[k].st = "expired" /\ timers'[k].st = "zeroOut"
                 => OwnInstance(k)
      ]_vars

\* C26: the summary HandleSuccessEvent reads after its Delete call is there:
\* whatever another terminal handler of the same identifier or the eviction
\* timer did in between, the handler never goes on with a nil summary.
C26_SuccessSummaryPresent ==
    \A w \in Workers :
        pc[w] = "Emit" /\ ev[w].name = "success" => finalDetails[w] # Nil

\* the timer field of the state worker w holds is the timer armed for the
\* registration w obtained from GetOrCreate
HasOwnTimer(w) ==
    LET k == objs[tempData[w]].timer
    IN  /\ k # 0
        /\ timers[k].id = ev[w].id
        /\ timers[k].epoch = epoch[w]
        /\ timers[k].obj = tempData[w]

\* C27: RecordFinality is executed only on a state that carries the timer of
\* its current registration: a terminal handler that obtained a state still
\* registered under its identifier never finds the timer field unset, nor
\* referring to the timer of the object's previous use.
C27_FinalityOnOwnTimer ==
    [][\A w \in Workers :
          ( /\ pc[w] = "RecordFinality"
            /\ Steps(w)
            /\ Live(w)
            /\ NoDeleteSince(w) )
          => HasOwnTimer(w)
      ]_vars

\* C28: the total-request counter counts retrievals, not started events: an
\* indexer-phase started event raises it by one when it records the start
\* time of its retrieval, and leaves it alone when the state registered under
\* its identifier has a start time already.
C28_TotalRequestsPerRetrieval ==
    [][\A w \in Workers :
          ( /\ pc[w] = "Record"
            /\ ev[w].name = "started"
            /\ ev[w].phase = "indexer"
            /\ Steps(w) )
          => metrics'.totalRequestCount =
                 IF Live(w) /\ objs[tempData[w]].startTime # 0
                 THEN metrics.totalRequestCount
                 ELSE metrics.totalRequestCount + 1
      ]_vars

\* the states whose flag f goes from unset to set in this step
FlagsSet(f) == { o \in Objs : objs[o][f] = 0 /\ objs'[o][f] = 1 }

\* C29: on a state that stays registered, the bitswap attempt flag and the
\* provider-addressed attempt flag, once set, stay set, so each is set at most
\* once; and each attempt counter rises exactly when its flag is set, by one:
\* an event that finds the flag set increments nothing.
C29_AttemptFlagsSetOnce ==
    [][/\ \A id \in Ids :
             LET o == internalMap[id]
             IN  (o # 0 /\ internalMap'[id] = o) =>
                     /\ objs'[o].bitswapAttempt >= objs[o].bitswapAttempt
                     /\ objs'[o].graphsyncAttempt >= objs[o].graphsyncAttempt
       /\ metrics'.requestWithBitswapAttempt =
              metrics.requestWithBitswapAttempt
                  + Cardinality(FlagsSet("bitswapAttempt"))
       /\ metrics'.requestWithGraphSyncAttempt =
              metrics.requestWithGraphSyncAttempt
                  + Cardinality(FlagsSet("graphsyncAttempt"))
      ]_vars

\* C29 witness: two retrieval-phase started events of one identifier have
\* been handled on its registered state, both for the same protocol family:
\* the flag is set and the counter stands at one.
C29_Witness ==
    \E id \in Ids :
        /\ internalMap[id] # 0
        /\ hist[internalMap[id]].attempts[id] = 2
        /\ \/ /\ objs[internalMap[id]].bitswapAttempt = 1
              /\ objs[internalMap[id]].graphsyncAttempt = 0
              /\ metrics.requestWithBitswapAttempt = 1
           \/ /\ objs[internalMap[id]].graphsyncAttempt = 1
              /\ objs[internalMap[id]].bitswapAttempt = 0
              /\ metrics.requestWithGraphSyncAttempt = 1

\* C30: on the state registered under its identifier, the first first-byte
\* event processed sets the time-to-first-byte to its own timestamp, raises
\* the first-byte-received counter by one and records one histogram sample;
\* every later first-byte event changes neither the time nor the sink.
C30_FirstByteFirstWriteWins ==
    [][\A w \in Workers :
          ( /\ pc[w] = "Record"
            /\ ev[w].name = "first-byte-received"
            /\ Steps(w)
            /\ Live(w)
            /\ NoDeleteSince(w) )
          => LET o == tempData[w]
             IN  IF hist[o].ttfb[ev[w].id] = 0
                 THEN /\ objs'[o].ttfbTime = ev[w].time
                      /\ metrics'.requestWithFirstByteReceivedCount
                             = metrics.requestWithFirstByteReceivedCount + 1
                      /\ Len(metrics'.timeToFirstByte)
                             = Len(metrics.timeToFirstByte) + 1
                 ELSE /\ objs'[o].ttfbTime = objs[o].ttfbTime
                      /\ metrics' = metrics
      ]_vars

\* the error-category counters that went up in this step
ErrorCountersRaised ==
    { k \in ErrorMetrics : metrics'.retrievalError[k] # metrics.retrievalError[k] }

\* C31: the handler of a retrieval-phase failed event with an error message
\* leaves the table, the states, the pool, the timers and the summaries as
\* they are; it raises exactly one error-category counter by one, a category
\* whose pattern the message contains or, when it contains none, the other
\* counter; the increment is tagged bitswap for the protocol-agnostic provider
\* and graphsync for any other; the provider-tagged failure counter rises by
\* one only for a provider that is not the protocol-agnostic one; and nothing
\* else in the sink changes.
C31_RetrievalFailureCountsOnly ==
    [][\A w \in Workers :
          pc[w] = "Classify" /\ Steps(w) =>
              LET msg == ev[w].error
                  hits == { errorMetricMatches[i].metric :
                              i \in { j \in 1..Len(errorMetricMatches) :
                                        Contains(msg, errorMetricMatches[j].substr) } }
                  tag == IF ev[w].sp = BitswapIndentifier THEN "bitswap" ELSE "graphsync"
              IN  /\ internalMap' = internalMap
                  /\ objs' = objs
                  /\ pool' = pool
                  /\ timers' = timers
                  /\ summaries' = summaries
                  /\ Cardinality(ErrorCountersRaised) = 1
                  /\ \A k \in ErrorCountersRaised :
                        /\ metrics'.retrievalError[k] = metrics.retrievalError[k] + 1
                        /\ IF hits = {} THEN k = "retrievalErrorOtherCount"
                           ELSE k \in hits
                  /\ metrics'.retrievalErrorProtocol =
                         [metrics.retrievalErrorProtocol EXCEPT ![tag] = @ + 1]
                  /\ metrics'.graphsyncRetrievalFailureCount =
                         metrics.graphsyncRetrievalFailureCount
                             + (IF ev[w].sp # BitswapIndentifier THEN 1 ELSE 0)
                  /\ metrics' =
                         [metrics EXCEPT
                            !.retrievalError = metrics'.retrievalError,
                            !.retrievalErrorProtocol = metrics'.retrievalErrorProtocol,
                            !.graphsyncRetrievalFailureCount =
                                metrics'.graphsyncRetrievalFailureCount]
      ]_vars

\* C31 witness: a retrieval-phase failed event of the protocol-agnostic
\* provider has been handled while a state was registered under its
\* identifier: the state is still registered, one error-category counter and
\* the bitswap tag stand at one, the provider-tagged counter at zero.
C31_Witness ==
    \E id \in Ids :
        /\ internalMap[id] # 0
        /\ reg[id].failed = 1
        /\ metrics.retrievalErrorProtocol["bitswap"] = 1
        /\ metrics.graphsyncRetrievalFailureCount = 0
        /\ \E k \in ErrorMetrics : metrics.retrievalError[k] = 1

\* a candidates-found or candidates-filtered event with well-formed details
\* and a count that is zero or negative
NonPositiveCount(e) ==
    /\ e.name \in {"candidates-found", "candidates-filtered"}
    /\ e.details = "object"
    /\ "candidateCount" \in e.fields
    /\ e.candidateCount <= 0

\* C32: the handler of a candidates-found or candidates-filtered event whose
\* count is zero or negative returns in its first step: it creates no state
\* entry, arms no timer, updates no field of any state and touches no counter
\* and no histogram.
C32_NonPositiveCountChangesNothing ==
    [][\A w \in Workers :
          /\ NonPositiveCount(ev'[w]) => pc'[w] = "Return"
          /\ NonPositiveCount(ev[w]) /\ Steps(w)
                => /\ pc'[w] = "idle"
                   /\ UNCHANGED <<internalMap, pool, objs, timers, metrics, inserts,
                                  summaries, panics>>
      ]_vars

\* C32 witness: the handler of a zero-count candidates event is returning
\* while a state that already counted candidates is registered under the
\* identifier of the event.
C32_Witness ==
    \E w \in Workers :
        /\ NonPositiveCount(ev[w])
        /\ ev[w].candidateCount = 0
        /\ pc[w] = "Return"
        /\ internalMap[ev[w].id] # 0
        /\ objs[internalMap[ev[w].id]].indexerCandidates > 0

\* C33: a non-terminal event handled for an identifier whose state was
\* removed before inserts a state with all aggregation fields zero, and when
\* the timer callback later removes that state, its summary holds the data of
\* the events of that identifier recorded on it since, and nothing else: the
\* start time, the candidate count and the time to first byte are those of
\* these events.
C33_LateEventFreshStateOwnSummary ==
    [][/\ \A w \in Workers :
             ( /\ pc[w] = "LoadOrStore"
               /\ ~Finalizes(ev[w])
               /\ Steps(w)
               /\ NumDeleted(ev[w].id) > 0
               /\ internalMap[ev[w].id] = 0 )
             => AggregationZero(objs'[internalMap'[ev[w].id]])
       /\ \A k \in 1..Len(timers) :
             ( /\ timers[k].st = "expired"
               /\ timers'[k].st = "zeroOut"
               /\ NumDeleted(timers[k].id) > 0 )
             => LET id == timers[k].id
                    o == internalMap[id]
                    v == finalValues(objs[o])
                IN  /\ v.StartTime = hist[o].started[id]
                    /\ v.IndexerCandidates = hist[o].found[id]
                    /\ v.TimeToFirstByte = hist[o].ttfb[id]
      ]_vars

\* C34: when an aggregate record with a positive time to first byte is
\* handled and some of its attempts have a non-zero time to first byte, the
\* time-to-first-byte sample (and with it the first-byte-received increment,
\* which carries the same attribute) is tagged with the protocol family of the
\* attempt whose non-zero time to first byte is the lowest, whatever the order
\* in which the attempts are visited.
C34_LowestTTFBProtocolTag ==
    [][HandlesRecord =>
        LET e == aggEvents[aggNext]
            att == e.RetrievalAttempts
            timed == { sp \in DOMAIN att : DurationOf(att[sp].TimeToFirstByte) > 0 }
            lowest == { sp \in timed :
                          \A other \in timed :
                              DurationOf(att[sp].TimeToFirstByte)
                                  <= DurationOf(att[other].TimeToFirstByte) }
            family(t) == CASE t = "transport-bitswap" -> "bitswap"
                           [] t = "transport-graphsync-filecoinv1" -> "graphsync"
                           [] t = "transport-ipfs-gateway-http" -> "http"
                           [] OTHER -> t
        IN  (DurationOf(e.TimeToFirstByte) > 0 /\ timed # {}) =>
                /\ Len(metrics'.timeToFirstByte) = Len(metrics.timeToFirstByte) + 1
                /\ metrics'.requestWithFirstByteReceivedCount
                       = metrics.requestWithFirstByteReceivedCount + 1
                /\ \E sp \in lowest :
                      metrics'.timeToFirstByte[Len(metrics'.timeToFirstByte)].protocol
                          = family(att[sp].Protocol)
      ]_vars

\* C35: when the request of a batch of events has been answered, a metrics
\* handler was called for an event of the batch only if the batch was
\* persisted: after an answer of 500 for a failed batch insert no handler has
\* been called and the database holds nothing of the batch.
C35_HandlersOnlyIfPersisted ==
    ( /\ http_pc = "done"
      /\ http_req.path = "/v1/retrieval-events"
      /\ \E i \in 1..Len(http_calls) : http_calls[i] # "" )
        => /\ http_status = 200
           /\ db = Persisted(http_req)

\* The step of call g that leaves the select of Get while the channel of work
\* items holds QueueCap items.
SelectAtFullQueue(g) ==
    /\ calls[g].pc = "select"
    /\ calls'[g].pc # "select"
    /\ Len(sm_c) = QueueCap

\* C36: Get never blocks its caller and the work queue is bounded: a Get that
\* has reached its select can always take its step; when the queue already
\* holds its capacity of pending work items (ten in the source, QueueCap
\* here), a Get for an uncached identifier is not enqueued and returns a
\* channel that is closed without a value; at no time does the queue hold
\* more work items than its capacity.
C36_GetNeverBlocksQueueBounded ==
    /\ [](/\ Len(sm_c) <= QueueCap
          /\ \A g \in GetCalls : calls[g].pc = "select" => ENABLED Get_select(g))
    /\ [][\A g \in GetCalls :
             SelectAtFullQueue(g)
                 => /\ sm_c' = sm_c
                    /\ calls'[g].pc = "returned"
                    /\ chans'[g].closed
                    /\ chans'[g].sent = <<>>
                    /\ chans'[g].buf = <<>>]_vars

\* The queue holds QueueCap work items, and a Get for an uncached identifier
\* that found it so has returned a channel closed without a value, from which
\* its caller has received the zero value.
C36_Witness ==
    /\ Len(sm_c) = QueueCap
    /\ \E g \in GetCalls :
          /\ calls[g].how = "full"
          /\ ~sm_cache[calls[g].id].ok
          /\ chans[g].closed
          /\ chans[g].sent = <<>>
          /\ calls[g].got = <<"">>

\* The lookup of call h has completed with a non-empty answer: it was queued
\* and the service answered it with a list that run has stored.
CompletedNonEmpty(h) ==
    calls[h].how = "queued" /\ calls[h].answered /\ calls[h].answer # <<>>

\* C37: once a lookup for an identifier has completed with a non-empty answer
\* (the model's cache evicts nothing), every Get for the same identifier that
\* starts later is answered from the cache with the first storage-provider
\* identifier of that answer and is not queued for the external service.
C37_LaterGetsAnsweredFromCache ==
    [][\A g, h \in GetCalls :
          ( /\ calls[g].pc = "none"
            /\ calls'[g].pc # "none"
            /\ CompletedNonEmpty(h)
            /\ calls'[g].id = calls[h].id )
              => /\ calls'[g].how = "hit"
                 /\ chans'[g].sent = <<calls[h].answer[1]>>
                 /\ lookups' = lookups]_vars

-----------------------------------------------------------------------------
\* RecordIndexerCandidates on one live TempData, as HandleCandidatesFoundEvent
\* calls it for a sequence of candidates-found events of one retrieval.

\* The candidateCount of an event is a float64; the counts drawn are the
\* multiples of one half from 0 up to the largest below 2^Uint32Bits.
CandidateHalves == 0..(2 * Uint32Mod - 1)

\* HandleCandidatesFoundEvent on the live state:
\*   if candidateCount > 0 {
\*       tempData.RecordIndexerCandidates(eventTime, uint32(candidateCount)) ... }
CandidatesFound_Record ==
    /\ Len(cand_firsts) < MaxCalls
    /\ \E halves \in CandidateHalves, eventTime \in Times :
          /\ halves > 0
          /\ LET r == RecordIndexerCandidates(cand_t, eventTime, Uint32(halves, 2))
             IN  /\ cand_t' = r.t
                 /\ cand_firsts' = Append(cand_firsts, r.first)
    /\ UNCHANGED <<stateTableVars, metrics, aggVars, spVars, httpVars>>

CandidatesNext == CandidatesFound_Record

CandidatesSpec == Init /\ [][CandidatesNext]_vars

\* C38: for one live state and any sequence of RecordIndexerCandidates calls
\* with counts converted to unsigned integers of the counter's width, the
\* call reports first = true for the first call and for no other, also when
\* a count converts to 0 or the accumulated sum wraps around to 0.
C38_FirstExactlyOnce ==
    \A i \in 1..Len(cand_firsts) : cand_firsts[i] <=> (i = 1)

====
